---- MODULE Spec2Model ----
(***************************************************************************)
(* Model of the tempo-cast quick-log command: the natural-language         *)
(* time-entry parser (src/src/utils/natural-language-parser.ts) driven by  *)
(* the text field of src/src/quick-log.tsx.                                *)
(*                                                                         *)
(* A JavaScript string is modelled as a sequence of one-character strings, *)
(* so that every regular expression of the parser is computed character by *)
(* character, the way the regex engine matches it (leftmost start, greedy  *)
(* quantifiers).                                                           *)
(***************************************************************************)
EXTENDS Integers, Sequences, FiniteSets, TLC

VARIABLES
  input,            \* quick-log.tsx: the text of the "Time Entry" field
  parsed,           \* quick-log.tsx: the ParsedTimeEntry of input, or Null
  validationError,  \* quick-log.tsx: the validation error of parsed, or NoError
  edits,            \* the chunks typed since the field was last empty
  selectedWorkType, \* quick-log.tsx: the value of the "Work Type" dropdown
  submitCall,       \* quick-log.tsx: the handleSubmit call in flight, or Idle
  createdWorklogs,  \* the createWorklog requests made so far
  errors,           \* the handleError calls made so far (title, message)
  worklogs,         \* timeline: the TempoWorklog list given to the functions
  plannedBlock,     \* timeline: the planned TimeBlock, or NoPlannedBlock
  blocks,           \* timeline: the result of worklogsToTimeBlocks
  conflicts,        \* timeline: the result of detectConflicts
  timeline,         \* timeline: the result of generateSimpleTimeline
  conflictSummary,  \* timeline: the result of generateConflictSummary
  key,              \* validation.ts: the string given to validateIssueKey
  keyValid,         \* validation.ts: the result of validateIssueKey(key)
  keyError,         \* the result of validateParsedEntry on an entry of that key
  jqlStored,        \* part_009: the LocalStorage item "jqlQueries", parsed
  BASE_DEFAULT,     \* part_009: the module's one built-in query object
  jqlCall,          \* part_009: the last call that wrote the queries
  jqlLoaded,        \* part_009: the result of the last loadJqlQueries call
  givenEntry,       \* the ParsedTimeEntry given to formatParsedEntry, or Null
  successDuration,  \* quick-log.tsx: the duration of the success message
  hookProps,        \* part_004: the props of the last render of useTimeline
  hookLoads,        \* part_004: the loadTimeline calls, one per effect run
  loading,          \* part_004: the loading state of useTimeline
  hookMounted,      \* part_004: the component using useTimeline is mounted
  activeTimer,      \* part_005: the LocalStorage item "tempo-active-timer"
  timersStarted,    \* the startTimer calls made so far
  isStopping,       \* stop-timer.tsx: the isStopping state of ActiveTimer
  stopCall,         \* stop-timer.tsx: the handleStop call in flight, or Idle
  markdown,         \* stop-timer.tsx: the screen that ActiveTimer shows
  loggedTimers      \* the timer entries whose createWorklog has succeeded

\* The state of the text field and of the effect on it
formVars == <<input, parsed, validationError, edits>>

\* The state of the submit handler
submitVars == <<selectedWorkType, submitCall, createdWorklogs, errors>>

\* The state of the timeline functions
timelineVars ==
  <<worklogs, plannedBlock, blocks, conflicts, timeline, conflictSummary>>

\* The state of the issue-key checks
keyVars == <<key, keyValid, keyError>>

\* The state of the modules beside the form and the timeline functions
\* The state of the JQL query storage
jqlVars == <<jqlStored, BASE_DEFAULT, jqlCall, jqlLoaded>>

\* The state of the formatting of a given entry
entryVars == <<givenEntry, successDuration>>

\* The state of the useTimeline hook beside timeline and conflictSummary
hookVars == <<hookProps, hookLoads, loading, hookMounted>>

\* The state of the timer and of the stop-timer command
timerVars ==
  <<activeTimer, timersStarted, isStopping, stopCall, markdown, loggedTimers>>

otherVars == <<keyVars, jqlVars, entryVars, hookVars, timerVars>>

\* What the issue-key checks leave alone of it
besideKey == <<jqlVars, entryVars, hookVars, timerVars>>

\* What the JQL storage leaves alone of it
besideJql == <<keyVars, entryVars, hookVars, timerVars>>

\* What the formatting of an entry leaves alone of it
besideEntry == <<keyVars, jqlVars, hookVars, timerVars>>

\* What the useTimeline hook leaves alone of it
besideHook == <<keyVars, jqlVars, entryVars, timerVars>>

\* What the timer leaves alone of it
besideTimer == <<keyVars, jqlVars, entryVars, hookVars>>

vars == <<formVars, submitVars, timelineVars, otherVars>>

\* No handleSubmit call is in flight.
Idle == [pc |-> "idle"]

\* A result that is not computed yet.
Pending == "pending"

\* The submit handler before any work type is loaded and any submit pressed
SubmitInit ==
  /\ selectedWorkType = ""
  /\ submitCall = Idle
  /\ createdWorklogs = <<>>
  /\ errors = <<>>

\* A list that is not computed yet.
PendingList == <<[pending |-> TRUE]>>

\* A text that is not computed yet.
PendingText == <<"pending">>

\* No planned block is given to the timeline functions.
NoPlannedBlock == [undefined |-> TRUE]

\* The timeline functions before they are given anything
TimelineInit ==
  /\ worklogs = <<>>
  /\ plannedBlock = NoPlannedBlock
  /\ blocks = PendingList
  /\ conflicts = PendingList
  /\ timeline = PendingText
  /\ conflictSummary = PendingText

\* No key is given to the issue-key checks yet.
KeyInit ==
  /\ key = <<>>
  /\ keyValid = FALSE
  /\ keyError = Pending

\* LocalStorage holds no item "jqlQueries".
NotStored == <<[missing |-> TRUE]>>

\* The built-in query as the module defines it
BuiltInQuery ==
  [title |-> "Assigned to me (Unresolved)",
   value |-> "assignee = currentUser() AND resolution = Unresolved ORDER BY updated DESC",
   isDefault |-> TRUE]

\* No call has written the queries yet.
NoCall == [name |-> "none", index |-> 0, queries |-> <<>>]

\* The JQL storage of a fresh installation
JqlInit ==
  /\ jqlStored = NotStored
  /\ BASE_DEFAULT = BuiltInQuery
  /\ jqlCall = NoCall
  /\ jqlLoaded = PendingList

\* No component uses useTimeline.
HookInit ==
  /\ hookProps = [date |-> "", plannedDuration |-> 0,
                  plannedStart |-> <<>>, issueKey |-> <<>>]
  /\ hookLoads = <<>>
  /\ loading = FALSE
  /\ hookMounted = FALSE

\* LocalStorage holds no item "tempo-active-timer".
NoTimer == [issueKey |-> <<>>, start |-> 0]

\* No timer runs and the stop-timer command has opened on none
TimerInit ==
  /\ activeTimer = NoTimer
  /\ timersStarted = 0
  /\ isStopping = FALSE
  /\ stopCall = Idle
  /\ markdown = "No Active Timer"
  /\ loggedTimers = <<>>

OtherInit ==
  /\ KeyInit
  /\ JqlInit
  /\ givenEntry = [null |-> TRUE]
  /\ successDuration = PendingText
  /\ HookInit
  /\ TimerInit

(***************************************************************************)
(* Bounds of the model.                                                    *)
(***************************************************************************)
\* The number of chunks typed into the text field since it was last empty.
MaxChunks == 3

\* The length of the text up to which the user goes on typing.
MaxLen == 24

(***************************************************************************)
(* Characters and character classes of the regular expressions.            *)
(***************************************************************************)
UpperSeq == <<"A","B","C","D","E","F","G","H","I","J","K","L","M",
              "N","O","P","Q","R","S","T","U","V","W","X","Y","Z">>

LowerSeq == <<"a","b","c","d","e","f","g","h","i","j","k","l","m",
              "n","o","p","q","r","s","t","u","v","w","x","y","z">>

DigitSeq == <<"0","1","2","3","4","5","6","7","8","9">>

Range(f) == { f[i] : i \in DOMAIN f }

\* [A-Z] under the i flag
Letters == Range(UpperSeq) \cup Range(LowerSeq)

\* \d
Digits == Range(DigitSeq)

\* [A-Z0-9] under the i flag
AlNum == Letters \cup Digits

\* \w, the class that decides \b
WordChars == AlNum \cup {"_"}

\* \s (the model's inputs use the blank and the tab)
Spaces == {" ", "\t"}

\* [-–—,;:.] of extractDescription; the en and em dash are written EN, EM
Separators == {"-", "EN", "EM", ",", ";", ":", "."}

\* String.prototype.toUpperCase on one character
UpperOf ==
  [c \in Range(LowerSeq) |-> UpperSeq[CHOOSE i \in DOMAIN LowerSeq : LowerSeq[i] = c]]

UpperChar(c) == IF c \in DOMAIN UpperOf THEN UpperOf[c] ELSE c

\* String.prototype.toLowerCase on one character
LowerOf ==
  [c \in Range(UpperSeq) |-> LowerSeq[CHOOSE i \in DOMAIN UpperSeq : UpperSeq[i] = c]]

LowerChar(c) == IF c \in DOMAIN LowerOf THEN LowerOf[c] ELSE c

toUpperCase(s) == [i \in DOMAIN s |-> UpperChar(s[i])]

\* The character at position i, "" outside the string (no class holds "").
At(s, i) == IF i >= 1 /\ i <= Len(s) THEN s[i] ELSE ""

\* The substring [i, j) of s.
Sub(s, i, j) == SubSeq(s, i, j - 1)

\* A greedy run X*: the first position >= i whose character is not in class.
RECURSIVE SkipWhile(_, _, _)
SkipWhile(s, i, class) ==
  IF At(s, i) \in class THEN SkipWhile(s, i + 1, class) ELSE i

\* \b between positions i-1 and i
WordBoundary(s, i) == (At(s, i - 1) \in WordChars) # (At(s, i) \in WordChars)

\* A literal, case-insensitive, at position i: lit is in lower case.
LitAt(s, i, lit) ==
  \A k \in DOMAIN lit : LowerChar(At(s, i + k - 1)) = lit[k]

\* parseInt(digits, 10) of a run of digits
DigitOf == [c \in Digits |-> (CHOOSE i \in DOMAIN DigitSeq : DigitSeq[i] = c) - 1]

DigitVal(c) == DigitOf[c]

RECURSIVE parseInt(_)
parseInt(ds) ==
  IF Len(ds) = 0 THEN 0
  ELSE 10 * parseInt(SubSeq(ds, 1, Len(ds) - 1)) + DigitVal(ds[Len(ds)])

RECURSIVE Pow10(_)
Pow10(k) == IF k = 0 THEN 1 ELSE 10 * Pow10(k - 1)

\* Number.prototype.toString().padStart(2, "0") of a number in 0..99
PadStart2(n) == <<DigitSeq[(n \div 10) + 1], DigitSeq[(n % 10) + 1]>>

\* null / undefined of the TypeScript code
Null == [null |-> TRUE]

Undefined == <<"undefined">>

(***************************************************************************)
(* Regular-expression matching.  A matcher M(s, i) gives the end (the      *)
(* position after the last matched character) of the match of its pattern  *)
(* that starts at position i, or 0 when the pattern does not match there.  *)
(* Every quantifier of the parser's patterns is greedy and is followed by  *)
(* a character its class excludes, so the greedy run is the only run that  *)
(* can match and backtracking never finds another one.                     *)
(***************************************************************************)
NoMatch == 0

\* IssueKeyMatch without the closing \b
IssueKeyMatchNoBoundary(s, i) ==
  IF ~WordBoundary(s, i) \/ At(s, i) \notin Letters THEN NoMatch
  ELSE LET j == SkipWhile(s, i + 1, AlNum)
       IN  IF j = i + 1 \/ At(s, j) # "-" THEN NoMatch
           ELSE LET k == SkipWhile(s, j + 1, Digits)
                IN  IF k = j + 1 THEN NoMatch ELSE k

\* /\b[A-Z][A-Z0-9]+-\d+\b/i
IssueKeyMatch(s, i) ==
  IF ~WordBoundary(s, i) \/ At(s, i) \notin Letters THEN NoMatch
  ELSE LET j == SkipWhile(s, i + 1, AlNum)
       IN  IF j = i + 1 \/ At(s, j) # "-" THEN NoMatch
           ELSE LET k == SkipWhile(s, j + 1, Digits)
                IN  IF k = j + 1 \/ ~WordBoundary(s, k) THEN NoMatch ELSE k

\* \d{1,2} at position i (a digit stands at i)
HourDigitsEnd(s, i) == IF At(s, i + 1) \in Digits THEN i + 2 ELSE i + 1

\* (:\d{2})? at position i
MinuteGroupEnd(s, i) ==
  IF At(s, i) = ":" /\ At(s, i + 1) \in Digits /\ At(s, i + 2) \in Digits
    THEN i + 3 ELSE i

\* (am|pm)? at position i
MeridiemEnd(s, i) ==
  IF LitAt(s, i, <<"a", "m">>) \/ LitAt(s, i, <<"p", "m">>) THEN i + 2 ELSE i

\* /@\s*\d{1,2}(:\d{2})?\s*(am|pm)?/i
TimeMatch(s, i) ==
  IF At(s, i) # "@" THEN NoMatch
  ELSE LET d == SkipWhile(s, i + 1, Spaces)
       IN  IF At(s, d) \notin Digits THEN NoMatch
           ELSE MeridiemEnd(s,
                  SkipWhile(s, MinuteGroupEnd(s, HourDigitsEnd(s, d)), Spaces))

\* \d+(?:\.\d+)? at position i
NumberEnd(s, i) ==
  LET a == SkipWhile(s, i, Digits)
  IN  IF a = i THEN NoMatch
      ELSE IF At(s, a) = "." /\ At(s, a + 1) \in Digits
             THEN SkipWhile(s, a + 1, Digits)
             ELSE a

\* h(?:ours?)? at position i
HourUnitEnd(s, i) ==
  IF LowerChar(At(s, i)) # "h" THEN NoMatch
  ELSE IF LitAt(s, i + 1, <<"o", "u", "r">>)
         THEN (IF LowerChar(At(s, i + 4)) = "s" THEN i + 5 ELSE i + 4)
         ELSE i + 1

\* m(?:in(?:ute)?s?)? at position i
MinuteUnitEnd(s, i) ==
  IF LowerChar(At(s, i)) # "m" THEN NoMatch
  ELSE IF LitAt(s, i + 1, <<"i", "n">>)
         THEN LET u == IF LitAt(s, i + 3, <<"u", "t", "e">>) THEN i + 6 ELSE i + 3
              IN  IF LowerChar(At(s, u)) = "s" THEN u + 1 ELSE u
         ELSE i + 1

\* /(\d+(?:\.\d+)?)\s*h(?:ours?)?/i
HoursOnlyMatch(s, i) ==
  LET n == NumberEnd(s, i)
  IN  IF n = NoMatch THEN NoMatch ELSE HourUnitEnd(s, SkipWhile(s, n, Spaces))

\* The start of the (\d+)? group of the hours-and-minutes pattern whose
\* hours part ends at h.
MinutesGroupStart(s, h) == SkipWhile(s, h, Spaces)

\* /(\d+(?:\.\d+)?)\s*h(?:ours?)?\s*(\d+)?\s*m(?:in(?:ute)?s?)?/i
HoursMinutesMatch(s, i) ==
  LET h == HoursOnlyMatch(s, i)
  IN  IF h = NoMatch THEN NoMatch
      ELSE LET p == MinutesGroupStart(s, h)
               q == SkipWhile(s, p, Digits)
           IN  MinuteUnitEnd(s, SkipWhile(s, q, Spaces))

\* /(\d+)\s*m(?:in(?:ute)?s?)?/i
MinutesOnlyMatch(s, i) ==
  LET a == SkipWhile(s, i, Digits)
  IN  IF a = i THEN NoMatch ELSE MinuteUnitEnd(s, SkipWhile(s, a, Spaces))

\* The patterns of the parser by name.
Match(pattern, s, i) ==
  CASE pattern = "issueKey"     -> IssueKeyMatch(s, i)
    [] pattern = "time"         -> TimeMatch(s, i)
    [] pattern = "hoursMinutes" -> HoursMinutesMatch(s, i)
    [] pattern = "hoursOnly"    -> HoursOnlyMatch(s, i)
    [] pattern = "minutesOnly"  -> MinutesOnlyMatch(s, i)

\* String.prototype.match without the g flag: the leftmost start of a match
\* at or after position i, 0 when there is none.
RECURSIVE FirstMatch(_, _, _)
FirstMatch(pattern, s, i) ==
  IF i > Len(s) THEN NoMatch
  ELSE IF Match(pattern, s, i) # NoMatch THEN i
  ELSE FirstMatch(pattern, s, i + 1)

\* String.prototype.replace(/.../g, ""): every match, left to right and
\* without overlap, removed from s.
RECURSIVE RemoveAll(_, _, _)
RemoveAll(pattern, s, i) ==
  IF i > Len(s) THEN <<>>
  ELSE IF Match(pattern, s, i) # NoMatch
         THEN RemoveAll(pattern, s, Match(pattern, s, i))
  ELSE <<s[i]>> \o RemoveAll(pattern, s, i + 1)

replaceAll(pattern, s) == RemoveAll(pattern, s, 1)

(***************************************************************************)
(* The parser: src/src/utils/natural-language-parser.ts                    *)
(***************************************************************************)
\* null of a string-valued function
NullString == <<"null">>

\* null of parseDuration (every duration it computes is >= 0)
NullDuration == -1

\* extractIssueKey taking the last match instead of the first
extractIssueKeyLast(s) ==
  LET starts == { i \in 1..Len(s) : Match("issueKey", s, i) # NoMatch }
      i == CHOOSE a \in starts : \A b \in starts : b <= a
  IN  IF starts = {} THEN NullString
      ELSE toUpperCase(Sub(s, i, Match("issueKey", s, i)))

extractIssueKey(s) ==
  LET i == FirstMatch("issueKey", s, 1)
  IN  IF i = NoMatch THEN NullString
      ELSE toUpperCase(Sub(s, i, IssueKeyMatch(s, i)))

\* The digits before the "." of a numeral matched by \d+(?:\.\d+)?
IntDigits(num) == Sub(num, 1, SkipWhile(num, 1, Digits))

\* The digits after the "." (empty when there is none)
FracDigits(num) == Sub(num, SkipWhile(num, 1, Digits) + 1, Len(num) + 1)

\* Math.round(parseFloat(num) * 3600 + minutes * 60): Math.round rounds a
\* half up, floor(x + 1/2).
RoundSeconds(num, minutes) ==
  LET den == Pow10(Len(FracDigits(num)))
      frac == parseInt(FracDigits(num)) * 3600
  IN  parseInt(IntDigits(num)) * 3600 + minutes * 60
        + ((2 * frac + den) \div (2 * den))

\* StripKeyAndTime leaving the issue keys in
StripTimeOnly(s) == replaceAll("time", s)

\* The input of parseDuration with the issue keys and the @time tokens removed
StripKeyAndTime(s) == replaceAll("time", replaceAll("issueKey", s))

hoursMinutesSeconds(text, i) ==
  LET p == MinutesGroupStart(text, HoursOnlyMatch(text, i))
      q == SkipWhile(text, p, Digits)
      minutes == IF q > p THEN parseInt(Sub(text, p, q)) ELSE 0
  IN  RoundSeconds(Sub(text, i, NumberEnd(text, i)), minutes)

hoursOnlySeconds(text, i) == RoundSeconds(Sub(text, i, NumberEnd(text, i)), 0)

minutesOnlySeconds(text, i) ==
  parseInt(Sub(text, i, SkipWhile(text, i, Digits))) * 60

\* durationOf trying the minutes first
durationOfMinutesFirst(text) ==
  LET hoursMinutes == FirstMatch("hoursMinutes", text, 1)
      hoursOnly == FirstMatch("hoursOnly", text, 1)
      minutesOnly == FirstMatch("minutesOnly", text, 1)
  IN  IF minutesOnly # NoMatch THEN minutesOnlySeconds(text, minutesOnly)
      ELSE IF hoursMinutes # NoMatch THEN hoursMinutesSeconds(text, hoursMinutes)
      ELSE IF hoursOnly # NoMatch THEN hoursOnlySeconds(text, hoursOnly)
      ELSE NullDuration

durationOf(text) ==
  LET hoursMinutes == FirstMatch("hoursMinutes", text, 1)
      hoursOnly == FirstMatch("hoursOnly", text, 1)
      minutesOnly == FirstMatch("minutesOnly", text, 1)
  IN  IF hoursMinutes # NoMatch THEN hoursMinutesSeconds(text, hoursMinutes)
      ELSE IF hoursOnly # NoMatch THEN hoursOnlySeconds(text, hoursOnly)
      ELSE IF minutesOnly # NoMatch THEN minutesOnlySeconds(text, minutesOnly)
      ELSE NullDuration

parseDuration(s) == durationOf(StripKeyAndTime(s))

\* adjustHours forgetting pm
adjustHoursNoPm(hours, meridiem) ==
  IF meridiem = <<"a", "m">> /\ hours = 12 THEN 0 ELSE hours

\* adjustHours adding 12 to 12pm too
adjustHoursNoon(hours, meridiem) ==
  IF meridiem = <<"p", "m">> /\ hours <= 12 THEN hours + 12
  ELSE IF meridiem = <<"a", "m">> /\ hours = 12 THEN 0
  ELSE hours

\* The hour of an @time token after the am/pm adjustment
adjustHours(hours, meridiem) ==
  IF meridiem = <<"p", "m">> /\ hours < 12 THEN hours + 12
  ELSE IF meridiem = <<"a", "m">> /\ hours = 12 THEN 0
  ELSE hours

\* formatStartTime checking the hours only
formatStartTimeHoursChecked(hours, minutes) ==
  IF hours < 0 \/ hours > 23 THEN NullString
  ELSE PadStart2(hours) \o <<":">> \o PadStart2(minutes) \o <<":", "0", "0">>

formatStartTime(hours, minutes) ==
  IF hours < 0 \/ hours > 23 \/ minutes < 0 \/ minutes > 59 THEN NullString
  ELSE PadStart2(hours) \o <<":">> \o PadStart2(minutes) \o <<":", "0", "0">>

\* The groups of the @time match that starts at position at:
\* parseInt(timeMatch[1], 10)
timeHours(s, at) ==
  LET d == SkipWhile(s, at + 1, Spaces)
  IN  parseInt(Sub(s, d, HourDigitsEnd(s, d)))

\* timeMatch[2] ? parseInt(timeMatch[2], 10) : 0
timeMinutes(s, at) ==
  LET he == HourDigitsEnd(s, SkipWhile(s, at + 1, Spaces))
      me == MinuteGroupEnd(s, he)
  IN  IF me > he THEN parseInt(Sub(s, he + 1, me)) ELSE 0

\* timeMatch[3]?.toLowerCase()
timeMeridiem(s, at) ==
  LET he == HourDigitsEnd(s, SkipWhile(s, at + 1, Spaces))
      sp == SkipWhile(s, MinuteGroupEnd(s, he), Spaces)
  IN  IF MeridiemEnd(s, sp) > sp
        THEN <<LowerChar(s[sp]), LowerChar(s[sp + 1])>>
        ELSE Undefined

parseStartTime(s) ==
  LET at == FirstMatch("time", s, 1)
  IN  IF at = NoMatch THEN NullString
      ELSE formatStartTime(adjustHours(timeHours(s, at), timeMeridiem(s, at)),
                           timeMinutes(s, at))

\* String.prototype.trim
trim(s) ==
  LET a == SkipWhile(s, 1, Spaces)
      b == CHOOSE j \in 0..Len(s) :
             /\ \A k \in (j + 1)..Len(s) : s[k] \in Spaces
             /\ (j = 0 \/ s[j] \notin Spaces)
  IN  IF a > b THEN <<>> ELSE SubSeq(s, a, b)

\* replace(/^[-–—,;:.]\s*/, "")
stripLeadingSeparator(s) ==
  IF At(s, 1) \in Separators
    THEN Sub(s, SkipWhile(s, 2, Spaces), Len(s) + 1)
    ELSE s

stripDurations(s) ==
  replaceAll("minutesOnly", replaceAll("hoursOnly", replaceAll("hoursMinutes", s)))

extractDescription(s) ==
  stripLeadingSeparator(
    trim(replaceAll("time", stripDurations(replaceAll("issueKey", s)))))

\* ParsedEntry rejecting only a missing duration, not a duration of 0
ParsedEntryAcceptingZero(issueKey, durationSeconds, startTime, description) ==
  IF issueKey = NullString THEN Null
  ELSE IF durationSeconds = NullDuration THEN Null
  ELSE [issueKey |-> issueKey,
        durationSeconds |-> durationSeconds,
        startTime |-> IF startTime = NullString THEN Undefined ELSE startTime,
        description |-> IF Len(description) = 0 THEN Undefined ELSE description]

\* What parseTimeEntry returns from the four values it has extracted
ParsedEntry(issueKey, durationSeconds, startTime, description) ==
  IF issueKey = NullString THEN Null
  ELSE IF durationSeconds = NullDuration \/ durationSeconds <= 0 THEN Null
  ELSE [issueKey |-> issueKey,
        durationSeconds |-> durationSeconds,
        startTime |-> IF startTime = NullString THEN Undefined ELSE startTime,
        description |-> IF Len(description) = 0 THEN Undefined ELSE description]

parseTimeEntry(s) ==
  IF Len(trim(s)) = 0 THEN Null
  ELSE ParsedEntry(extractIssueKey(s), parseDuration(s),
                   parseStartTime(s), extractDescription(s))

\* /^[A-Z][A-Z0-9]+-\d+$/i.test(s)
IssueKeyTest(s) ==
  /\ At(s, 1) \in Letters
  /\ LET j == SkipWhile(s, 2, AlNum)
     IN  /\ j > 2
         /\ At(s, j) = "-"
         /\ SkipWhile(s, j + 1, Digits) > j + 1
         /\ SkipWhile(s, j + 1, Digits) = Len(s) + 1

ErrParse == "Could not parse input. Format: ISSUE-123 2h description or ISSUE-123 30m @ 9am description"

ErrIssueKey == "Invalid issue key format. Expected: ABC-123"

ErrDuration == "Invalid duration. Use formats like: 2h, 30m, 2h30m, 1.5h"

ErrRange == "Duration cannot exceed 24 hours"

\* null of validateParsedEntry: the entry is valid
NoError == "null"

\* validateParsedEntry rejecting a duration of exactly 24 hours
validateParsedEntryBelowDay(entry) ==
  IF entry = Null THEN ErrParse
  ELSE IF Len(entry.issueKey) = 0 \/ ~IssueKeyTest(entry.issueKey) THEN ErrIssueKey
  ELSE IF entry.durationSeconds = 0 \/ entry.durationSeconds <= 0 THEN ErrDuration
  ELSE IF entry.durationSeconds >= 24 * 3600 THEN ErrRange
  ELSE NoError

validateParsedEntry(entry) ==
  IF entry = Null THEN ErrParse
  ELSE IF Len(entry.issueKey) = 0 \/ ~IssueKeyTest(entry.issueKey) THEN ErrIssueKey
  ELSE IF entry.durationSeconds = 0 \/ entry.durationSeconds <= 0 THEN ErrDuration
  ELSE IF entry.durationSeconds > 24 * 3600 THEN ErrRange
  ELSE NoError

(***************************************************************************)
(* The quick-log form: src/src/quick-log.tsx                               *)
(***************************************************************************)
ExampleFeature ==
  <<"A", "B", "C", "-", "1", "2", "3", " ", "2", "h", " ", "w", "o", "r", "k", "i", "n", "g", " ", "o", "n", " ", "f", "e", "a", "t", "u", "r", "e">>

ExampleBugFix ==
  <<"A", "B", "C", "-", "1", "2", "3", " ", "1", ".", "5", "h", " ", "@", " ", "9", "a", "m", " ", "b", "u", "g", " ", "f", "i", "x">>

ExampleReview ==
  <<"A", "B", "C", "-", "1", "2", "3", " ", "3", "0", "m", " ", "c", "o", "d", "e", " ", "r", "e", "v", "i", "e", "w">>

ExampleMeeting ==
  <<"A", "B", "C", "-", "1", "2", "3", " ", "2", "h", "3", "0", "m", " ", "@", " ", "1", "4", ":", "0", "0", " ", "t", "e", "a", "m", " ", "m", "e", "e", "t", "i", "n", "g">>

ExampleDocs ==
  <<"P", "R", "O", "J", "-", "4", "5", "6", " ", "4", "5", "m", " ", "@", " ", "2", "p", "m", " ", "d", "o", "c", "u", "m", "e", "n", "t", "a", "t", "i", "o", "n">>

ExampleLower ==
  <<"p", "r", "o", "j", "-", "4", "5", "6", " ", "4", "5", "m", " ", "@", " ", "2", "p", "m", " ", "d", "o", "c", "u", "m", "e", "n", "t", "a", "t", "i", "o", "n">>

\* The examples the form shows, and the lower-case variant of the last one
Examples ==
  {ExampleFeature, ExampleBugFix, ExampleReview, ExampleMeeting, ExampleDocs, ExampleLower}

\* What the user types in one go: keys, durations, times and words
Chunks ==
  {<<"A", "B", "-", "1">>,
   <<" ", "c", "d", "-", "2">>,
   <<" ", "2", "h">>,
   <<" ", "1", ".", "5", "h">>,
   <<" ", "1", ".", "5", "m">>,
   <<"3", "0", "m">>,
   <<" ", "0", "h">>,
   <<" ", "3", "0", "m">>,
   <<"m">>,
   <<" ">>,
   <<" ", "@", "9">>,
   <<":", "7", "5">>,
   <<"p", "m">>,
   <<" ", "f", "i", "x">>}

\* Typing issue keys and what comes close to one
KeyChunks ==
  {<<"A", "B", "-", "1">>,
   <<" ", "c", "d", "-", "2">>,
   <<"A", "-", "1">>,
   <<" ", "Q", "7", "-", "3", "0">>,
   <<" ", "2", "h">>,
   <<" ", "@", "9">>,
   <<"m">>,
   <<" ">>,
   <<"-">>,
   <<"3">>,
   <<"Z">>}

\* Typing @time tokens after a key and a duration
TimeChunks ==
  {<<"A", "B", "-", "1", " ", "2", "h">>,
   <<" ", "@", "9">>,
   <<" ", "@", "1", "2">>,
   <<" ", "@", "1", "3">>,
   <<" ", "@", "2", "5">>,
   <<":", "3", "0">>,
   <<":", "7", "5">>,
   <<"a", "m">>,
   <<"p", "m">>,
   <<" ", "P", "M">>,
   <<" ">>,
   <<"0">>,
   <<"3", "0", "m">>}

\* Typing a description after a key, a duration and a time
DescriptionChunks ==
  {<<"A", "B", "-", "1", " ", "2", "h">>,
   <<"A", "B", "-", "1", " ", "3", "0", "m">>,
   <<"A", "B", "-", "1", " ", "2", "h", "3", "0", "m">>,
   <<" ", "@", "9">>,
   <<" ", "@", " ", "2", "p", "m">>,
   <<" ", "f", "i", "x">>,
   <<" ", "m", "e", "e", "t", "i", "n", "g">>,
   <<" ", "a", "m", "e", "n", "d">>,
   <<" ", "m", "i", "n", "o", "r">>,
   <<" ">>,
   <<"-", " ">>}

\* Form.TextField onChange = setInput, then the effect on [input]:
\* processInput parses and validates the new text.
processInput(text) ==
  /\ input' = text
  /\ parsed' = parseTimeEntry(text)
  /\ validationError' = validateParsedEntry(parsed')

\* The state after the first render: the effect has run on the empty input.
Init ==
  /\ input = <<>>
  /\ parsed = parseTimeEntry(<<>>)
  /\ validationError = validateParsedEntry(parseTimeEntry(<<>>))
  /\ edits = 0
  /\ SubmitInit
  /\ TimelineInit
  /\ OtherInit

\* The user types a chunk of the vocabulary at the end of the text.
TypeChunk(vocabulary) ==
  /\ edits < MaxChunks
  /\ \E c \in vocabulary :
       /\ Len(input) + Len(c) <= MaxLen
       /\ processInput(input \o c)
  /\ edits' = edits + 1
  /\ UNCHANGED <<submitVars, timelineVars, otherVars>>

\* The user pastes one of the examples into the empty field.
PasteExample ==
  /\ edits < MaxChunks
  /\ input = <<>>
  /\ \E e \in Examples : processInput(e)
  /\ edits' = edits + 1
  /\ UNCHANGED <<submitVars, timelineVars, otherVars>>

\* The user clears the field.
ClearInput ==
  /\ input # <<>>
  /\ processInput(<<>>)
  /\ edits' = 0
  /\ UNCHANGED <<submitVars, timelineVars, otherVars>>

Next == TypeChunk(Chunks) \/ PasteExample \/ ClearInput

Spec == Init /\ [][Next]_vars

NextKeys == TypeChunk(KeyChunks) \/ PasteExample \/ ClearInput

SpecKeys == Init /\ [][NextKeys]_vars

NextTimes == TypeChunk(TimeChunks) \/ PasteExample \/ ClearInput

SpecTimes == Init /\ [][NextTimes]_vars

NextDescription == TypeChunk(DescriptionChunks) \/ PasteExample \/ ClearInput

SpecDescription == Init /\ [][NextDescription]_vars

\* validateParsedEntry as a function of its own: any caller's entry.
TestIssueKeys ==
  {<<"A", "B", "-", "1">>,
   <<"a", "b", "-", "1", "2">>,
   <<"X", "9", "-", "0", "7">>,
   <<"A", "-", "1">>,
   <<"A", "B", "1">>,
   <<"A", "B", "-", "1", "x">>,
   <<"-", "1">>,
   <<>>}

TestDurations == {-60, 0, 1, 60, 86399, 86400, 86401, 172800}

TestEntries ==
  { [issueKey |-> k, durationSeconds |-> d,
     startTime |-> Undefined, description |-> Undefined] :
       k \in TestIssueKeys, d \in TestDurations } \cup {Null}

InitValidate ==
  /\ input = <<>>
  /\ edits = 0
  /\ parsed \in TestEntries
  /\ validationError = Pending
  /\ SubmitInit
  /\ TimelineInit
  /\ OtherInit

ValidateEntry ==
  /\ validationError = Pending
  /\ validationError' = validateParsedEntry(parsed)
  /\ UNCHANGED <<input, parsed, edits, submitVars, timelineVars, otherVars>>

NextValidate == ValidateEntry

SpecValidate == InitValidate /\ [][NextValidate]_vars

(***************************************************************************)
(* The submit handler of the quick-log form (src/src/quick-log.tsx).       *)
(***************************************************************************)
\* The number of submit presses.
MaxSubmits == 2

\* The values of the work types that useWorkTypes loads
WorkTypes == <<"Development", "Meeting">>

\* new Date().toTimeString().substring(0, 8): the wall clock at the submit
Clock ==
  {<<"0", "8", ":", "1", "5", ":", "0", "0">>,
   <<"1", "7", ":", "4", "0", ":", "3", "0">>}

\* What getIssueIdFromKey answers: an id, an empty id, or a rejection
IssueLookups == {"10001", "", "rejected"}

SubmitChunks ==
  {<<"A", "B", "-", "1", " ">>,
   <<"2">>,
   <<"5", "h">>,
   <<"@", "9", " ">>}

\* The text field changes: onChange = setInput. The effect on [input] has
\* not run yet, parsed and validationError are those of the previous text.
setInput(vocabulary) ==
  /\ edits < MaxChunks
  /\ \E c \in vocabulary :
       /\ Len(input) + Len(c) <= MaxLen
       /\ input' = input \o c
  /\ edits' = edits + 1
  /\ UNCHANGED <<parsed, validationError, submitVars, timelineVars, otherVars>>

\* The effect on [input] runs: processInput parses and validates the text.
InputEffect ==
  /\ parsed # parseTimeEntry(input)
  /\ processInput(input)
  /\ UNCHANGED <<edits, submitVars, timelineVars, otherVars>>

\* The effect on [workTypes, selectedWorkType]: the first work type is
\* selected once the work types have arrived.
DefaultWorkType ==
  /\ selectedWorkType = ""
  /\ selectedWorkType' = WorkTypes[1]
  /\ UNCHANGED <<formVars, submitCall, createdWorklogs, errors, timelineVars, otherVars>>

\* The dropdown changes: onChange = setSelectedWorkType.
setSelectedWorkType ==
  /\ selectedWorkType # ""
  /\ \E k \in DOMAIN WorkTypes :
       /\ WorkTypes[k] # selectedWorkType
       /\ selectedWorkType' = WorkTypes[k]
  /\ UNCHANGED <<formVars, submitCall, createdWorklogs, errors, timelineVars, otherVars>>

\* handleError(error, title): the failure toast
handleError(message, title) ==
  errors' = Append(errors, [title |-> title, message |-> message])

\* handleSubmit accepting every entry that parsed
InvalidInputNullOnly(entry, error) == entry = Null

\* !parsed || validationError
InvalidInput(entry, error) == entry = Null \/ error # NoError

\* handleSubmit up to its first request: the two guards, then the call of
\* getIssueIdFromKey with the parsed entry of this render.
handleSubmit ==
  /\ submitCall = Idle
  /\ Len(errors) + Len(createdWorklogs) < MaxSubmits
  /\ IF InvalidInput(parsed, validationError)
       THEN /\ handleError(IF validationError # NoError THEN validationError
                           ELSE "Could not parse input", "Invalid Input")
            /\ UNCHANGED submitCall
       ELSE IF selectedWorkType = ""
         THEN /\ handleError("Please select a work type", "Work Type Required")
              /\ UNCHANGED submitCall
         ELSE /\ submitCall' = [pc |-> "getIssueIdFromKey", parsed |-> parsed,
                                workType |-> selectedWorkType]
              /\ UNCHANGED errors
  /\ UNCHANGED <<formVars, selectedWorkType, createdWorklogs, timelineVars, otherVars>>

\* The createWorklog request of handleSubmit
WorklogRequest(issueId, entry, workType, now) ==
  [issueId |-> issueId,
   timeSpentSeconds |-> entry.durationSeconds,
   startTime |-> IF entry.startTime = Undefined THEN now ELSE entry.startTime,
   description |-> entry.description,
   workTypeValue |-> workType]

\* getIssueIdFromKey settles: without an id handleSubmit reports the error,
\* with one it calls createWorklog.
IssueIdSettled ==
  /\ submitCall # Idle
  /\ submitCall.pc = "getIssueIdFromKey"
  /\ \E issueId \in IssueLookups :
       IF issueId = "rejected"
         THEN /\ handleError("Request failed", "Failed to Log Time")
              /\ submitCall' = Idle
              /\ UNCHANGED createdWorklogs
         ELSE IF issueId = ""
           THEN /\ handleError("Issue not found", "Failed to Log Time")
                /\ submitCall' = Idle
                /\ UNCHANGED createdWorklogs
           ELSE /\ \E now \in Clock :
                     createdWorklogs' =
                       Append(createdWorklogs,
                              WorklogRequest(issueId, submitCall.parsed,
                                             submitCall.workType, now))
                /\ submitCall' = [submitCall EXCEPT !.pc = "createWorklog"]
                /\ UNCHANGED errors
  /\ UNCHANGED <<formVars, selectedWorkType, timelineVars, otherVars>>

\* createWorklog settles: the success toast and the detail view, or the
\* failure toast.
WorklogSettled ==
  /\ submitCall # Idle
  /\ submitCall.pc = "createWorklog"
  /\ \/ UNCHANGED errors
     \/ handleError("Request failed", "Failed to Log Time")
  /\ submitCall' = Idle
  /\ UNCHANGED <<formVars, selectedWorkType, createdWorklogs, timelineVars, otherVars>>

NextSubmit ==
  \/ setInput(SubmitChunks)
  \/ InputEffect
  \/ ClearInput
  \/ DefaultWorkType
  \/ setSelectedWorkType
  \/ handleSubmit
  \/ IssueIdSettled
  \/ WorklogSettled

SpecSubmit == Init /\ [][NextSubmit]_vars

(***************************************************************************)
(* formatParsedEntry (src/src/utils/natural-language-parser.ts), the       *)
(* preview of the parsed entry under the text field.                       *)
(***************************************************************************)
\* `${n}` of a non-negative integer: its decimal digits
RECURSIVE NumberToString(_)
NumberToString(n) ==
  IF n < 10 THEN <<DigitSeq[n + 1]>>
  ELSE Append(NumberToString(n \div 10), DigitSeq[(n % 10) + 1])

\* durationText printing the minutes whenever there are hours
durationTextZeroMinutes(hours, minutes) ==
  IF hours > 0 /\ minutes >= 0
    THEN NumberToString(hours) \o <<"h", " ">> \o NumberToString(minutes) \o <<"m">>
  ELSE NumberToString(minutes) \o <<"m">>

\* The duration of formatParsedEntry from its whole hours and minutes
durationText(hours, minutes) ==
  IF hours > 0 /\ minutes > 0
    THEN NumberToString(hours) \o <<"h", " ">> \o NumberToString(minutes) \o <<"m">>
  ELSE IF hours > 0 THEN NumberToString(hours) \o <<"h">>
  ELSE NumberToString(minutes) \o <<"m">>

\* The hour of the 12-hour display
displayHour(hour) ==
  IF hour = 0 THEN 12
  ELSE IF hour > 12 THEN hour - 12
  ELSE hour

\* ampm calling noon AM
ampmAfterNoon(hour) == IF hour > 12 THEN <<"P", "M">> ELSE <<"A", "M">>

\* hour >= 12 ? "PM" : "AM"
ampm(hour) == IF hour >= 12 THEN <<"P", "M">> ELSE <<"A", "M">>

\* ` @ ${displayHour}:${minute} ${ampm}` from the pieces h and m of
\* startTime.split(":")
timeTextOf(hour, minute) ==
  <<" ", "@", " ">> \o NumberToString(displayHour(hour)) \o <<":">> \o minute
    \o <<" ">> \o ampm(hour)

\* The end of the ":"-separated piece of a time that starts at position i
\* (the pieces of a time are digits)
PieceEnd(time, i) == SkipWhile(time, i, Digits)

\* The time of formatParsedEntry, empty without a start time
timeText(startTime) ==
  IF startTime = Undefined \/ Len(startTime) = 0 THEN <<>>
  ELSE timeTextOf(parseInt(Sub(startTime, 1, PieceEnd(startTime, 1))),
                  Sub(startTime, PieceEnd(startTime, 1) + 1,
                      PieceEnd(startTime, PieceEnd(startTime, 1) + 1)))

\* entry.description ? ` - ${entry.description}` : ""
descText(description) ==
  IF description = Undefined \/ Len(description) = 0 THEN <<>>
  ELSE <<" ", "-", " ">> \o description

formatParsedEntry(entry) ==
  entry.issueKey \o <<":", " ">>
    \o durationText(entry.durationSeconds \div 3600,
                    (entry.durationSeconds % 3600) \div 60)
    \o timeText(entry.startTime)
    \o descText(entry.description)

\* The texts typed to see the preview: durations with and without whole
\* hours and minutes, a duration below a minute, start times, a description
FormatChunks ==
  {<<"A", "B", "-", "1">>,
   <<" ", "2", "h">>,
   <<" ", "1", "2", "h">>,
   <<"3", "0", "m">>,
   <<" ", "9", "0", "m">>,
   <<" ", "0", ".", "0", "1", "h">>,
   <<" ", "1", ".", "0", "1", "h">>,
   <<" ", "@", "9">>,
   <<" ", "@", "1", "2">>,
   <<" ", "@", "0", ":", "0", "5">>,
   <<"p", "m">>,
   <<" ", "f", "i", "x">>}

NextFormat == TypeChunk(FormatChunks) \/ PasteExample \/ ClearInput

SpecFormat == Init /\ [][NextFormat]_vars

(***************************************************************************)
(* The timeline functions (src/unnamed/part_008, imported as               *)
(* utils/timeline-visualizer).                                             *)
(*                                                                         *)
(* timeToMinutes returns h * 60 + m + s / 60, a number of minutes with a   *)
(* fraction of sixtieths.  The model holds every such number of minutes    *)
(* as its count of sixtieths of a minute, an integer: 09:00:30 is 32430,   *)
(* and durationSeconds / 60 minutes are durationSeconds sixtieths.         *)
(***************************************************************************)
\* The sixtieths of a minute in one minute
PerMinute == 60

\* The sixtieths of a minute in one hour
PerHour == 60 * PerMinute

\* The number of worklogs of the day
MaxLogs == 3

\* The end of the piece of time that starts at position i, and the number
\* in it: time.split(":").map(Number) on pieces of digits
PieceNumber(time, i) == parseInt(Sub(time, i, PieceEnd(time, i)))

\* The start of the piece after the piece that starts at position i
NextPiece(time, i) == PieceEnd(time, i) + 1

\* timeToMinutes dropping the seconds
timeToMinutesNoSeconds(time) ==
  PieceNumber(time, 1) * PerHour + PieceNumber(time, NextPiece(time, 1)) * PerMinute

\* h * 60 + m + (s || 0) / 60, in sixtieths of a minute; a time without a
\* third piece has s undefined
timeToMinutes(time) ==
  PieceNumber(time, 1) * PerHour
    + PieceNumber(time, NextPiece(time, 1)) * PerMinute
    + PieceNumber(time, NextPiece(time, NextPiece(time, 1)))

\* n.toString().padStart(2, "0")
padStart2(digits) == IF Len(digits) < 2 THEN <<"0">> \o digits ELSE digits

\* minutesToTime wrapping at midnight
minutesToTimeWrapped(minutes) ==
  padStart2(NumberToString((minutes \div PerHour) % 24)) \o <<":">>
    \o padStart2(NumberToString((minutes % PerHour) \div PerMinute))

\* Math.floor(minutes / 60) and Math.floor(minutes % 60), zero-padded
minutesToTime(minutes) ==
  padStart2(NumberToString(minutes \div PerHour)) \o <<":">>
    \o padStart2(NumberToString((minutes % PerHour) \div PerMinute))

calculateEndTime(startTime, durationSeconds) ==
  minutesToTime(timeToMinutes(startTime) + durationSeconds)

\* The default start time at midnight
DefaultStartTimeMidnight == <<"0", "0", ":", "0", "0", ":", "0", "0">>

\* log.startTime || "09:00:00"
DefaultStartTime == <<"0", "9", ":", "0", "0", ":", "0", "0">>

\* worklogsToTimeBlocks keeping an absent start time absent
startTimeOfNoDefault(log) == log.startTime

startTimeOf(log) ==
  IF log.startTime = Undefined \/ Len(log.startTime) = 0
    THEN DefaultStartTime
    ELSE log.startTime

\* log.issue?.key || `#${log.issue?.id}`
issueKeyOf(log) ==
  IF log.issue.key = Undefined \/ Len(log.issue.key) = 0
    THEN <<"#">> \o NumberToString(log.issue.id)
    ELSE log.issue.key

\* The TimeBlock of one worklog from its start time
TimeBlockOf(log, startTime) ==
  [startTime |-> startTime,
   endTime |-> calculateEndTime(startTime, log.timeSpentSeconds),
   durationSeconds |-> log.timeSpentSeconds,
   issueKey |-> issueKeyOf(log),
   description |-> log.description,
   isPlanned |-> FALSE]

worklogsToTimeBlocks(logs) ==
  [k \in DOMAIN logs |-> TimeBlockOf(logs[k], startTimeOf(logs[k]))]

Max(a, b) == IF a >= b THEN a ELSE b

Min(a, b) == IF a <= b THEN a ELSE b

\* overlapStart taking the earlier of the two starts
overlapStartEarliest(b1, b2) ==
  Min(timeToMinutes(b1.startTime), timeToMinutes(b2.startTime))

\* overlapStart of the blocks b1 and b2
overlapStart(b1, b2) ==
  Max(timeToMinutes(b1.startTime), timeToMinutes(b2.startTime))

\* overlapEnd looking at the end of the first block only
overlapEndOfFirst(b1, b2) == timeToMinutes(b1.endTime)

\* overlapEnd of the blocks b1 and b2
overlapEnd(b1, b2) ==
  Min(timeToMinutes(b1.endTime), timeToMinutes(b2.endTime))

\* conflictOf taking blocks that only touch for a conflict
conflictOfTouching(b1, b2, from, to) ==
  IF from <= to
    THEN <<[block1 |-> b1, block2 |-> b2, overlapMinutes |-> to - from]>>
    ELSE <<>>

\* The conflict of the pair, a list of one conflict or of none
conflictOf(b1, b2, from, to) ==
  IF from < to
    THEN <<[block1 |-> b1, block2 |-> b2, overlapMinutes |-> to - from]>>
    ELSE <<>>

\* The loops of detectConflicts from the pair (i, j) on
RECURSIVE detectFrom(_, _, _)
detectFrom(list, i, j) ==
  IF i > Len(list) THEN <<>>
  ELSE IF j > Len(list) THEN detectFrom(list, i + 1, i + 2)
  ELSE conflictOf(list[i], list[j],
                  overlapStart(list[i], list[j]), overlapEnd(list[i], list[j]))
         \o detectFrom(list, i, j + 1)

\* detectConflicts pairing every block with the blocks before it too
detectConflictsBothOrders(list) ==
  detectFrom(list, 1, 2) \o detectFrom([k \in DOMAIN list |-> list[Len(list) + 1 - k]], 1, 2)

detectConflicts(list) == detectFrom(list, 1, 2)

\* The tenths k for which (6k + 3) / 60 hours, exactly halfway between k and
\* k + 1 tenths, is a double below the halfway point: toFixed(1) rounds the
\* double, so it rounds these down and every other halfway case up.  The
\* table covers the overlaps below 4 hours.
ToFixedTiesDown == {11, 14, 16, 19, 20, 21, 25, 26, 30, 31, 35, 36}

\* The tenths of hours that (minutes / 60).toFixed(1) shows
toFixedTenths(minutes) ==
  IF minutes % 360 = 180 /\ (minutes \div 360) \in ToFixedTiesDown
    THEN minutes \div 360
    ELSE (minutes + 180) \div 360

\* (minutes / 60).toFixed(1)
toFixed1(tenths) ==
  NumberToString(tenths \div 10) \o <<".", DigitSeq[(tenths % 10) + 1]>>

\* Math.round of a number of sixtieths: the nearest whole, a half goes up
MathRound(sixtieths) == (sixtieths + 30) \div 60

\* formatOverlap showing an overlap of exactly one hour in minutes
formatOverlapAboveHour(overlapMinutes) ==
  IF overlapMinutes > PerHour
    THEN toFixed1(toFixedTenths(overlapMinutes)) \o <<"h">>
    ELSE NumberToString(MathRound(overlapMinutes)) \o <<"m">>

\* overlapHours >= 1 ? `${overlapHours.toFixed(1)}h` : `${Math.round(overlapMinutes)}m`
formatOverlap(overlapMinutes) ==
  IF overlapMinutes >= PerHour
    THEN toFixed1(toFixedTenths(overlapMinutes)) \o <<"h">>
    ELSE NumberToString(MathRound(overlapMinutes)) \o <<"m">>

\* The line of one conflict; the bullet is written BULLET
conflictLine(conflict) ==
  <<"BULLET", " ">> \o conflict.block1.issueKey
    \o <<" ", "(">> \o conflict.block1.startTime \o <<")">>
    \o <<" ", "o", "v", "e", "r", "l", "a", "p", "s", " ", "w", "i", "t", "h", " ">>
    \o conflict.block2.issueKey
    \o <<" ", "(">> \o conflict.block2.startTime \o <<")">>
    \o <<" ", "b", "y", " ">> \o formatOverlap(conflict.overlapMinutes)
    \o <<"\n">>

\* The lines of the conflicts from the k-th on
RECURSIVE conflictLines(_, _)
conflictLines(list, k) ==
  IF k > Len(list) THEN <<>>
  ELSE conflictLine(list[k]) \o conflictLines(list, k + 1)

\* The fixed message of an empty list; the check mark is written CHECK
NoConflictsMessage ==
  <<"CHECK", " ", "N", "o", " ", "t", "i", "m", "e", " ", "c", "o", "n", "f",
    "l", "i", "c", "t", "s", " ", "d", "e", "t", "e", "c", "t", "e", "d">>

\* The first line of the summary; the warning sign is written WARN
summaryHeader(count) ==
  <<"WARN", " ", " ", "*", "*">> \o NumberToString(count)
    \o <<" ", "c", "o", "n", "f", "l", "i", "c", "t">>
    \o (IF count > 1 THEN <<"s">> ELSE <<>>)
    \o <<" ", "d", "e", "t", "e", "c", "t", "e", "d", ":", "*", "*", "\n", "\n">>

generateConflictSummary(list) ==
  IF Len(list) = 0 THEN NoConflictsMessage
  ELSE summaryHeader(Len(list)) \o conflictLines(list, 1)

\* plannedBlock ? [...blocks, plannedBlock] : blocks
allBlocks(list, planned) ==
  IF planned = NoPlannedBlock THEN list ELSE Append(list, planned)

\* The number of blocks of a sorted list that stay before block b: those
\* that start before b
startingBefore(sorted, b) ==
  Cardinality({k \in DOMAIN sorted :
                 timeToMinutes(sorted[k].startTime) < timeToMinutes(b.startTime)})

\* The number of blocks of a sorted list that stay before block b: those
\* that do not start after b (the sort is stable)
notStartingAfter(sorted, b) ==
  Cardinality({k \in DOMAIN sorted :
                 timeToMinutes(sorted[k].startTime) <= timeToMinutes(b.startTime)})

\* The list with block b put in after its first k blocks
insertAfter(sorted, b, k) ==
  SubSeq(sorted, 1, k) \o <<b>> \o SubSeq(sorted, k + 1, Len(sorted))

\* insertBlock putting the block before the blocks of the same start time
insertBlockBeforeEqual(sorted, b) == insertAfter(sorted, b, startingBefore(sorted, b))

\* The sorted list with block b put in: after the blocks of the same start
\* time, the sort is stable
insertBlock(sorted, b) == insertAfter(sorted, b, notStartingAfter(sorted, b))

\* [...allBlocks].sort((a, b) => timeToMinutes(a.startTime) - timeToMinutes(b.startTime))
RECURSIVE sortBlocks(_)
sortBlocks(list) ==
  IF Len(list) = 0 THEN <<>>
  ELSE insertBlock(sortBlocks(SubSeq(list, 1, Len(list) - 1)), list[Len(list)])

\* hours > 0 ? `${hours}h ${mins}m` : `${mins}m` of the rounded minutes
durationStr(duration) ==
  IF duration \div 60 > 0
    THEN NumberToString(duration \div 60) \o <<"h", " ">>
           \o NumberToString(duration % 60) \o <<"m">>
    ELSE NumberToString(duration % 60) \o <<"m">>

\* The length at which a description is cut
DescriptionCut == 40

\* descriptionPart adding the ellipsis to a description of 40 characters too
descriptionPartFrom40(description) ==
  IF description = Undefined \/ Len(description) = 0 THEN <<>>
  ELSE <<" ", "-", " ">> \o SubSeq(description, 1, Min(Len(description), DescriptionCut))
         \o (IF Len(description) >= DescriptionCut THEN <<".", ".", ".">> ELSE <<>>)

\* ` - ${description.substring(0, 40)}${description.length > 40 ? "..." : ""}`
descriptionPart(description) ==
  IF description = Undefined \/ Len(description) = 0 THEN <<>>
  ELSE <<" ", "-", " ">> \o SubSeq(description, 1, Min(Len(description), DescriptionCut))
         \o (IF Len(description) > DescriptionCut THEN <<".", ".", ".">> ELSE <<>>)

\* block.isPlanned ? the blue square : the green square, written BLUE, GREEN
emoji(block) == IF block.isPlanned THEN "BLUE" ELSE "GREEN"

\* The two lines of one block and the empty line after them
blockLines(block) ==
  <<emoji(block), " ">> \o block.startTime \o <<" ", "-", " ">> \o block.endTime
    \o <<" ", "(">> \o durationStr(MathRound(block.durationSeconds)) \o <<")", "\n">>
    \o <<" ", " ", " ">> \o block.issueKey \o descriptionPart(block.description)
    \o <<"\n", "\n">>

\* The lines of the blocks from the k-th on
RECURSIVE timelineLines(_, _)
timelineLines(list, k) ==
  IF k > Len(list) THEN <<>>
  ELSE blockLines(list[k]) \o timelineLines(list, k + 1)

\* The first line of the timeline
timelineHeader ==
  <<"*", "*", "T", "o", "d", "a", "y", "'", "s", " ", "S", "c", "h", "e", "d",
    "u", "l", "e", ":", "*", "*", "\n", "\n">>

generateSimpleTimeline(list, planned) ==
  timelineHeader \o timelineLines(sortBlocks(allBlocks(list, planned)), 1)

\* The caller's list after a sort of allBlocks itself: without a planned
\* block allBlocks is the caller's list
blocksSortedInPlace(list, planned) ==
  IF planned = NoPlannedBlock THEN sortBlocks(list) ELSE list

\* The caller's list after generateSimpleTimeline: [...allBlocks] is a copy
\* and sort reorders the copy
blocksAfterTimeline(list, planned) == list

(***************************************************************************)
(* The timeline functions applied to the worklogs of a day and to the      *)
(* block planned in the form, in the order in which useTimeline            *)
(* (src/unnamed/part_004) applies them.                                    *)
(***************************************************************************)
\* A worklog of one hour from 09:00
LogStandup ==
  [startTime |-> <<"0", "9", ":", "0", "0", ":", "0", "0">>,
   timeSpentSeconds |-> 3600,
   issue |-> [id |-> 1001, key |-> <<"A", "B", "-", "1">>],
   description |-> 
     <<"s", "t", "a", "n", "d", "u", "p">>]

\* A worklog of one hour from 10:00, where LogStandup ends; its description
\* has 41 characters
LogRelease ==
  [startTime |-> <<"1", "0", ":", "0", "0", ":", "0", "0">>,
   timeSpentSeconds |-> 3600,
   issue |-> [id |-> 1002, key |-> <<"A", "B", "-", "2">>],
   description |-> 
     <<"w", "r", "i", "t", "e", " ", "t", "h", "e", " ", "r", "e", "l", "e", "a", "s", "e", " ", "n", "o", "t", "e", "s", " ", "o", "f", " ", "t", "h", "e", " ", "t", "i", "m", "e", " ", "s", "h", "e", "e", "t">>]

\* A worklog from 09:00 to 10:30; its description has 40 characters
LogReview ==
  [startTime |-> <<"0", "9", ":", "0", "0", ":", "0", "0">>,
   timeSpentSeconds |-> 5400,
   issue |-> [id |-> 1003, key |-> <<"A", "B", "-", "3">>],
   description |-> 
     <<"r", "e", "v", "i", "e", "w", " ", "t", "h", "e", " ", "p", "u", "l", "l", " ", "r", "e", "q", "u", "e", "s", "t", " ", "f", "o", "r", " ", "t", "h", "e", " ", "p", "a", "r", "s", "e", "r", ".", ".">>]

\* A worklog without a start time and without an issue key, half a minute
\* short of one hour
LogNoStart ==
  [startTime |-> Undefined,
   timeSpentSeconds |-> 3570,
   issue |-> [id |-> 1004, key |-> Undefined],
   description |-> Undefined]

\* A worklog of 29 seconds at noon
LogMoment ==
  [startTime |-> <<"1", "2", ":", "0", "0", ":", "0", "0">>,
   timeSpentSeconds |-> 29,
   issue |-> [id |-> 1005, key |-> <<"A", "B", "-", "5">>],
   description |-> Undefined]

\* A worklog that starts at a half minute, from 09:00:30 to 11:00:00
LogSeconds ==
  [startTime |-> <<"0", "9", ":", "0", "0", ":", "3", "0">>,
   timeSpentSeconds |-> 7170,
   issue |-> [id |-> 1006, key |-> <<"A", "B", "-", "6">>],
   description |-> Undefined]

TestWorklogs ==
  {LogStandup, LogRelease, LogReview, LogNoStart, LogMoment, LogSeconds}

\* The lists of at most n worklogs
RECURSIVE WorklogLists(_)
WorklogLists(n) ==
  IF n = 0 THEN {<<>>}
  ELSE WorklogLists(n - 1)
         \cup { Append(l, w) : l \in { m \in WorklogLists(n - 1) : Len(m) = n - 1 },
                               w \in TestWorklogs }

\* The planned block that useTimeline builds from the props of the form
PlannedBlockOf(plannedStart, plannedDuration, issueKey) ==
  [startTime |-> plannedStart,
   endTime |-> calculateEndTime(plannedStart, plannedDuration),
   durationSeconds |-> plannedDuration,
   issueKey |-> issueKey,
   description |-> Undefined,
   isPlanned |-> TRUE]

\* issueKey || "(Select issue)"
SelectIssue == <<"(", "S", "e", "l", "e", "c", "t", " ", "i", "s", "s", "u", "e", ")">>

\* The planned blocks: half an hour from 09:00, two hours from 23:30
PlannedBlocks ==
  {PlannedBlockOf(DefaultStartTime, 1800, SelectIssue),
   PlannedBlockOf(<<"2", "3", ":", "3", "0", ":", "0", "0">>, 7200, <<"A", "B", "-", "9">>)}

InitTimeline ==
  /\ input = <<>>
  /\ parsed = parseTimeEntry(<<>>)
  /\ validationError = validateParsedEntry(parseTimeEntry(<<>>))
  /\ edits = 0
  /\ SubmitInit
  /\ OtherInit
  /\ worklogs \in WorklogLists(MaxLogs)
  /\ plannedBlock \in PlannedBlocks \cup {NoPlannedBlock}
  /\ blocks = PendingList
  /\ conflicts = PendingList
  /\ timeline = PendingText
  /\ conflictSummary = PendingText

ToTimeBlocks ==
  /\ blocks = PendingList
  /\ blocks' = worklogsToTimeBlocks(worklogs)
  /\ UNCHANGED <<formVars, submitVars, otherVars, worklogs, plannedBlock, conflicts,
                 timeline, conflictSummary>>

\* detectConflicts on the existing blocks and the planned block
DetectConflicts ==
  /\ blocks # PendingList
  /\ conflicts = PendingList
  /\ conflicts' = detectConflicts(allBlocks(blocks, plannedBlock))
  /\ UNCHANGED <<formVars, submitVars, otherVars, worklogs, plannedBlock, blocks,
                 timeline, conflictSummary>>

RenderTimeline ==
  /\ conflicts # PendingList
  /\ timeline = PendingText
  /\ timeline' = generateSimpleTimeline(blocks, plannedBlock)
  /\ blocks' = blocksAfterTimeline(blocks, plannedBlock)
  /\ UNCHANGED <<formVars, submitVars, otherVars, worklogs, plannedBlock,
                 conflicts, conflictSummary>>

SummariseConflicts ==
  /\ timeline # PendingText
  /\ conflictSummary = PendingText
  /\ conflictSummary' = generateConflictSummary(conflicts)
  /\ UNCHANGED <<formVars, submitVars, otherVars, worklogs, plannedBlock, blocks,
                 conflicts, timeline>>

NextTimeline ==
  \/ ToTimeBlocks
  \/ DetectConflicts
  \/ RenderTimeline
  \/ SummariseConflicts

SpecTimeline == InitTimeline /\ [][NextTimeline]_vars

(***************************************************************************)
(* The shared issue-key validation (src/src/utils/validation.ts), run on   *)
(* a key next to the parser and to the key check of validateParsedEntry.   *)
(***************************************************************************)
\* /^[A-Z][A-Z0-9]+-\d+$/ without the i flag
ISSUE_KEY_PATTERN_CaseSensitive(s) ==
  \E j \in 3..(Len(s) - 1) :
    /\ s[1] \in Range(UpperSeq)
    /\ \A k \in 2..(j - 1) : s[k] \in Range(UpperSeq) \cup Digits
    /\ s[j] = "-"
    /\ \A k \in (j + 1)..Len(s) : s[k] \in Digits

\* ISSUE_KEY_PATTERN.test(s): the whole of s is a letter, one or more
\* letters or digits, a hyphen and one or more digits, in either case
ISSUE_KEY_PATTERN(s) ==
  \E j \in 3..(Len(s) - 1) :
    /\ s[1] \in Letters
    /\ \A k \in 2..(j - 1) : s[k] \in AlNum
    /\ s[j] = "-"
    /\ \A k \in (j + 1)..Len(s) : s[k] \in Digits

validateIssueKey(k) == ISSUE_KEY_PATTERN(trim(k))

\* The pieces a key is put together from
IssueKeyChunks ==
  {<<"A", "B">>, <<"a">>, <<"Z", "9">>, <<"-">>, <<"-", "1">>, <<"7">>,
   <<"h">>, <<" ">>, <<"_">>, <<"x", "-", "2">>}

\* The " 1h" that makes a time entry of a key
OneHour == <<" ", "1", "h">>

\* An entry of one hour under the key, as validateParsedEntry is given it
EntryOfKey(k) ==
  [issueKey |-> k, durationSeconds |-> 3600,
   startTime |-> Undefined, description |-> Undefined]

\* The three checks of a key: validateIssueKey, validateParsedEntry on an
\* entry of the key, and the form parsing the key followed by " 1h"
checkIssueKey(k) ==
  /\ key' = k
  /\ keyValid' = validateIssueKey(k)
  /\ keyError' = validateParsedEntry(EntryOfKey(k))
  /\ processInput(k \o OneHour)

\* A piece is added to the key and the key is checked
ExtendKey ==
  /\ edits < MaxChunks
  /\ \E c \in IssueKeyChunks :
       /\ Len(key) + Len(c) + Len(OneHour) <= MaxLen
       /\ checkIssueKey(key \o c)
  /\ edits' = edits + 1
  /\ UNCHANGED <<submitVars, timelineVars, besideKey>>

\* The key is dropped
ClearKey ==
  /\ key # <<>>
  /\ key' = <<>>
  /\ keyValid' = FALSE
  /\ keyError' = Pending
  /\ processInput(<<>>)
  /\ edits' = 0
  /\ UNCHANGED <<submitVars, timelineVars, besideKey>>

NextIssueKey == ExtendKey \/ ClearKey

SpecIssueKey == Init /\ [][NextIssueKey]_vars

(***************************************************************************)
(* The JQL query storage (src/unnamed/part_009).  Every function is async  *)
(* and the calls run one at a time, so each call is one action.  A list in *)
(* memory holds object references: "shared" says that its first element   *)
(* is the module's BASE_DEFAULT object, which a write through the list     *)
(* changes.                                                                *)
(***************************************************************************)
\* The number of queries up to which the user goes on adding.
MaxQueries == 3

\* The index of the first query with isDefault, 0 if there is none
firstDefault(queries) ==
  IF \E i \in DOMAIN queries : queries[i].isDefault
  THEN CHOOSE i \in DOMAIN queries :
         /\ queries[i].isDefault
         /\ \A j \in 1..(i - 1) : ~queries[j].isDefault
  ELSE 0

\* Every query gets isDefault exactly if it is at the index
defaultAt(queries, index) ==
  [i \in DOMAIN queries |-> [queries[i] EXCEPT !.isDefault = (i = index)]]

\* The normalisation without the fallback to the first query
ensureOneDefaultNoFallback(queries) ==
  defaultAt(queries, firstDefault(queries))

\* "Ensure only one isDefault": the first default stays, every other query
\* gets false, and without any default the first query becomes the default
ensureOneDefault(queries) ==
  IF firstDefault(queries) = 0 THEN defaultAt(queries, 1)
  ELSE defaultAt(queries, firstDefault(queries))

\* loadJqlQueries finds nothing stored, or an empty list
nothingStored(stored) == stored = NotStored \/ stored = <<>>

\* The list loadJqlQueries returns
loadedQueries(stored, base) ==
  IF nothingStored(stored) THEN ensureOneDefault(<<base>>)
  ELSE ensureOneDefault(stored)

\* saveJqlQueries(queries): the list is normalised in place and stored
saveJqlQueries(queries, shared) ==
  /\ jqlStored' = ensureOneDefault(queries)
  /\ BASE_DEFAULT' = IF shared THEN ensureOneDefault(queries)[1] ELSE BASE_DEFAULT

\* Array.prototype.splice(index, 1): a negative index counts from the end
spliceStart(queries, index) ==
  IF index < 0 THEN Max(Len(queries) + index, 0) ELSE Min(index, Len(queries))

splice(queries, index) ==
  SubSeq(queries, 1, spliceStart(queries, index))
    \o SubSeq(queries, spliceStart(queries, index) + 2, Len(queries))

\* The queries the user writes
UserQueries ==
  { [title |-> t, value |-> t, isDefault |-> d] :
      t \in {"project = AB", "sprint in openSprints()"}, d \in BOOLEAN }

\* The lists the user saves directly
UserLists ==
  {<<>>} \cup { <<q>> : q \in UserQueries }
         \cup { <<q1, q2>> : q1 \in UserQueries, q2 \in UserQueries }

\* The indexes the user passes, in and out of range
Indexes == (0 - 1)..MaxQueries

\* The call is remembered with the list it loaded
called(name, index, queries) ==
  /\ jqlCall' = [name |-> name, index |-> index, queries |-> queries]
  /\ jqlLoaded' = PendingList

addJqlQuery(query, queries, shared) ==
  /\ saveJqlQueries(Append(queries, [query EXCEPT !.isDefault = FALSE]), shared)
  /\ called("addJqlQuery", 0, queries)

AddJqlQuery ==
  /\ ~nothingStored(jqlStored) => Len(jqlStored) < MaxQueries
  /\ \E query \in UserQueries :
       addJqlQuery(query, loadedQueries(jqlStored, BASE_DEFAULT),
                   nothingStored(jqlStored))
  /\ UNCHANGED <<formVars, submitVars, timelineVars, besideJql>>

removeJqlQuery(index, queries, rest, shared) ==
  /\ IF rest = <<>> THEN saveJqlQueries(<<BASE_DEFAULT>>, TRUE)
     ELSE saveJqlQueries(rest, shared)
  /\ called("removeJqlQuery", index, queries)

RemoveJqlQuery ==
  /\ \E index \in Indexes :
       removeJqlQuery(index, loadedQueries(jqlStored, BASE_DEFAULT),
                      splice(loadedQueries(jqlStored, BASE_DEFAULT), index),
                      nothingStored(jqlStored))
  /\ UNCHANGED <<formVars, submitVars, timelineVars, besideJql>>

setDefaultJql(index, queries, shared) ==
  /\ saveJqlQueries(defaultAt(queries, index + 1), shared)
  /\ called("setDefaultJql", index, queries)

SetDefaultJql ==
  /\ \E index \in Indexes :
       setDefaultJql(index, loadedQueries(jqlStored, BASE_DEFAULT),
                     nothingStored(jqlStored))
  /\ UNCHANGED <<formVars, submitVars, timelineVars, besideJql>>

SaveJqlQueries ==
  /\ \E queries \in UserLists :
       /\ saveJqlQueries(queries, FALSE)
       /\ called("saveJqlQueries", 0, queries)
  /\ UNCHANGED <<formVars, submitVars, timelineVars, besideJql>>

\* loadJqlQueries(): with nothing stored the built-in query is saved
LoadJqlQueries ==
  /\ jqlLoaded' = loadedQueries(jqlStored, BASE_DEFAULT)
  /\ IF nothingStored(jqlStored) THEN saveJqlQueries(<<BASE_DEFAULT>>, TRUE)
     ELSE UNCHANGED <<jqlStored, BASE_DEFAULT>>
  /\ UNCHANGED jqlCall
  /\ UNCHANGED <<formVars, submitVars, timelineVars, besideJql>>

NextJql ==
  \/ AddJqlQuery
  \/ RemoveJqlQuery
  \/ SetDefaultJql
  \/ SaveJqlQueries
  \/ LoadJqlQueries

SpecJql == Init /\ [][NextJql]_vars

(***************************************************************************)
(* formatParsedEntry on a given entry, and the form parsing the text it    *)
(* returns (natural-language-parser.ts).                                   *)
(***************************************************************************)
\* "HH:MM:00" of an hour and a minute
TimeOfDay(h, m) == PadStart2(h) \o <<":">> \o PadStart2(m) \o <<":", "0", "0">>

\* The issue keys of the entries, in upper and in lower case
EntryIssueKeys ==
  {<<"A", "B", "-", "1">>, <<"H", "2", "M", "-", "3", "0">>, <<"a", "b", "-", "1">>}

\* The durations of the entries: whole minutes below and above an hour, a
\* day and more, and durations with seconds
EntryDurations ==
  {0, 60, 1800, 3540, 3600, 5400, 43200, 86400, 90060, 90, 3570, 3601}

\* The start times of the entries: none, midnight, noon, the hours around
\* them and the last minute of the day
EntryStartTimes ==
  {Undefined} \cup { TimeOfDay(h, m) : h \in {0, 1, 9, 11, 12, 13, 23}, m \in {0, 5, 59} }

EntryDescriptions == {Undefined, <<"f", "i", "x">>}

Entries ==
  { [issueKey |-> k, durationSeconds |-> d, startTime |-> t, description |-> x] :
      k \in EntryIssueKeys, d \in EntryDurations,
      t \in EntryStartTimes, x \in EntryDescriptions }

\* An entry is given, the form is empty
InitRoundTrip ==
  /\ input = <<>>
  /\ parsed = parseTimeEntry(<<>>)
  /\ validationError = validateParsedEntry(parseTimeEntry(<<>>))
  /\ edits = 0
  /\ SubmitInit
  /\ TimelineInit
  /\ KeyInit
  /\ JqlInit
  /\ HookInit
  /\ TimerInit
  /\ givenEntry \in Entries
  /\ successDuration = PendingText

\* The entry is formatted and the form parses the text
FormatEntry ==
  /\ input = <<>>
  /\ processInput(formatParsedEntry(givenEntry))
  /\ UNCHANGED <<entryVars, edits, submitVars, timelineVars, besideEntry>>

NextRoundTrip == FormatEntry

SpecRoundTrip == InitRoundTrip /\ [][NextRoundTrip]_vars

(***************************************************************************)
(* formatDuration (src/src/utils/time-formatting.ts), the duration of the  *)
(* success message of quick-log, next to the preview of the same entry.    *)
(***************************************************************************)
\* formatDuration printing the minutes whenever there are hours
formatDurationZeroMinutes(totalMinutes) ==
  IF totalMinutes \div 60 > 0
    THEN NumberToString(totalMinutes \div 60) \o <<"h", " ">>
           \o NumberToString(totalMinutes % 60) \o <<"m">>
  ELSE NumberToString(totalMinutes % 60) \o <<"m">>

\* The text of formatDuration from the rounded minutes
formatMinutes(totalMinutes) ==
  IF totalMinutes \div 60 > 0 /\ totalMinutes % 60 > 0
    THEN NumberToString(totalMinutes \div 60) \o <<"h", " ">>
           \o NumberToString(totalMinutes % 60) \o <<"m">>
  ELSE IF totalMinutes \div 60 > 0
    THEN NumberToString(totalMinutes \div 60) \o <<"h">>
  ELSE NumberToString(totalMinutes % 60) \o <<"m">>

\* totalMinutes = Math.round(seconds / 60)
formatDuration(seconds) == formatMinutes((seconds + 30) \div 60)

\* The success message is built for the entry
FormatDuration ==
  /\ successDuration = PendingText
  /\ successDuration' = formatDuration(givenEntry.durationSeconds)
  /\ UNCHANGED <<givenEntry, formVars, submitVars, timelineVars, besideEntry>>

NextDurations == FormatEntry \/ FormatDuration

SpecDurations == InitRoundTrip /\ [][NextDurations]_vars

(***************************************************************************)
(* The timeline functions on worklogs without a start time and on          *)
(* worklogs that end when they start (src/unnamed/part_008).               *)
(***************************************************************************)
\* A worklog without a start time, of a minute and a half
LogNoStartBrief ==
  [startTime |-> Undefined,
   timeSpentSeconds |-> 90,
   issue |-> [id |-> 1007, key |-> <<"A", "B", "-", "7">>],
   description |-> Undefined]

\* A worklog without a start time, one second short of a minute
LogNoStartSeconds ==
  [startTime |-> Undefined,
   timeSpentSeconds |-> 59,
   issue |-> [id |-> 1008, key |-> <<"A", "B", "-", "8">>],
   description |-> Undefined]

\* A worklog of no duration at 09:30
LogZero ==
  [startTime |-> <<"0", "9", ":", "3", "0", ":", "0", "0">>,
   timeSpentSeconds |-> 0,
   issue |-> [id |-> 1009, key |-> <<"A", "B", "-", "9">>],
   description |-> Undefined]

\* A worklog of 29 seconds from 09:10:30, which ends at 09:10:59
LogInstant ==
  [startTime |-> <<"0", "9", ":", "1", "0", ":", "3", "0">>,
   timeSpentSeconds |-> 29,
   issue |-> [id |-> 1010, key |-> <<"A", "B", "-", "1", "0">>],
   description |-> Undefined]

EdgeWorklogs ==
  {LogStandup, LogNoStart, LogNoStartBrief, LogNoStartSeconds, LogZero, LogInstant}

\* The lists of at most n of these worklogs
RECURSIVE EdgeWorklogLists(_)
EdgeWorklogLists(n) ==
  IF n = 0 THEN {<<>>}
  ELSE EdgeWorklogLists(n - 1)
         \cup { Append(l, w) : l \in { m \in EdgeWorklogLists(n - 1) : Len(m) = n - 1 },
                               w \in EdgeWorklogs }

InitTimelineEdge ==
  /\ input = <<>>
  /\ parsed = parseTimeEntry(<<>>)
  /\ validationError = validateParsedEntry(parseTimeEntry(<<>>))
  /\ edits = 0
  /\ SubmitInit
  /\ OtherInit
  /\ worklogs \in EdgeWorklogLists(MaxLogs)
  /\ plannedBlock \in PlannedBlocks \cup {NoPlannedBlock}
  /\ blocks = PendingList
  /\ conflicts = PendingList
  /\ timeline = PendingText
  /\ conflictSummary = PendingText

SpecTimelineEdge == InitTimelineEdge /\ [][NextTimeline]_vars

(***************************************************************************)
(* The useTimeline hook (src/unnamed/part_004).  Every run of the effect   *)
(* starts a loadTimeline call with its own "mounted" flag; the cleanup of  *)
(* the effect, run before the next effect and at unmount, clears the flag  *)
(* of the run it belongs to.  A call waits for getMyWorklogs and then      *)
(* runs to its end without interruption.                                   *)
(***************************************************************************)
\* The number of effect runs up to which the props go on changing.
MaxLoads == 3

\* The props the component renders the hook with
HookProps ==
  {[date |-> "2026-11-02", plannedDuration |-> 1800,
    plannedStart |-> DefaultStartTime, issueKey |-> <<>>],
   [date |-> "2026-11-03", plannedDuration |-> 1800,
    plannedStart |-> DefaultStartTime, issueKey |-> <<>>],
   [date |-> "2026-11-02", plannedDuration |-> 3600,
    plannedStart |-> <<"0", "9", ":", "3", "0", ":", "0", "0">>,
    issueKey |-> <<"A", "B", "-", "9">>]}

\* The worklogs of a date on the server
getMyWorklogs(date) ==
  IF date = "2026-11-02" THEN <<LogStandup>> ELSE <<LogNoStart, LogSeconds>>

\* The planned block of the props
plannedBlockOf(props) ==
  PlannedBlockOf(props.plannedStart, props.plannedDuration,
                 IF props.issueKey = <<>> THEN SelectIssue ELSE props.issueKey)

\* What a call sets timeline to from the worklogs it got
timelineOf(props, logs) ==
  generateSimpleTimeline(worklogsToTimeBlocks(logs), plannedBlockOf(props))

\* What a call sets conflictSummary to from the worklogs it got
conflictSummaryOf(props, logs) ==
  generateConflictSummary(
    detectConflicts(allBlocks(worklogsToTimeBlocks(logs), plannedBlockOf(props))))

\* The call of an effect run: it has set loading and waits for the worklogs
NewLoad(props) == [props |-> props, mounted |-> TRUE, state |-> "waiting"]

\* The cleanup of the last effect run: mounted = false
cleanup(loads) ==
  [i \in DOMAIN loads |->
     IF i = Len(loads) THEN [loads[i] EXCEPT !.mounted = FALSE] ELSE loads[i]]

\* if (mounted) with the flag ignored
mayWriteAlways(load) == TRUE

\* if (mounted)
mayWrite(load) == load.mounted

\* The component mounts: useState("") three times and the first effect run
InitHook ==
  /\ input = <<>>
  /\ parsed = parseTimeEntry(<<>>)
  /\ validationError = validateParsedEntry(parseTimeEntry(<<>>))
  /\ edits = 0
  /\ SubmitInit
  /\ KeyInit
  /\ JqlInit
  /\ givenEntry = Null
  /\ successDuration = PendingText
  /\ TimerInit
  /\ worklogs = <<>>
  /\ plannedBlock = NoPlannedBlock
  /\ blocks = PendingList
  /\ conflicts = PendingList
  /\ timeline = <<>>
  /\ conflictSummary = <<>>
  /\ hookProps \in HookProps
  /\ hookLoads = <<NewLoad(hookProps)>>
  /\ loading = TRUE
  /\ hookMounted = TRUE

\* A render with other props: the cleanup of the last effect run, then the
\* effect runs again, sets loading and starts a call
ChangeProps ==
  /\ hookMounted
  /\ Len(hookLoads) < MaxLoads
  /\ \E props \in HookProps \ {hookProps} :
       /\ hookProps' = props
       /\ hookLoads' = Append(cleanup(hookLoads), NewLoad(props))
  /\ loading' = TRUE
  /\ UNCHANGED <<hookMounted, formVars, submitVars, besideHook, timelineVars>>

\* The component unmounts: the cleanup of the last effect run
Unmount ==
  /\ hookMounted
  /\ hookMounted' = FALSE
  /\ hookLoads' = cleanup(hookLoads)
  /\ UNCHANGED <<hookProps, loading, formVars, submitVars, besideHook, timelineVars>>

\* getMyWorklogs of call i resolves: the try block and the finally block
LoadResolves(i) ==
  /\ hookLoads[i].state = "waiting"
  /\ hookLoads' = [hookLoads EXCEPT ![i].state = "done"]
  /\ IF mayWrite(hookLoads[i])
       THEN /\ timeline' = timelineOf(hookLoads[i].props,
                                      getMyWorklogs(hookLoads[i].props.date))
            /\ conflictSummary' = conflictSummaryOf(hookLoads[i].props,
                                      getMyWorklogs(hookLoads[i].props.date))
            /\ loading' = FALSE
       ELSE UNCHANGED <<timeline, conflictSummary, loading>>
  /\ UNCHANGED <<hookProps, hookMounted, formVars, submitVars, besideHook,
                 worklogs, plannedBlock, blocks, conflicts>>

\* getMyWorklogs of call i rejects: the catch block and the finally block
LoadFails(i) ==
  /\ hookLoads[i].state = "waiting"
  /\ hookLoads' = [hookLoads EXCEPT ![i].state = "failed"]
  /\ IF mayWrite(hookLoads[i])
       THEN /\ timeline' = <<>>
            /\ conflictSummary' = <<>>
            /\ loading' = FALSE
       ELSE UNCHANGED <<timeline, conflictSummary, loading>>
  /\ UNCHANGED <<hookProps, hookMounted, formVars, submitVars, besideHook,
                 worklogs, plannedBlock, blocks, conflicts>>

NextHook ==
  \/ ChangeProps
  \/ Unmount
  \/ \E i \in DOMAIN hookLoads : LoadResolves(i)
  \/ \E i \in DOMAIN hookLoads : LoadFails(i)

SpecHook == InitHook /\ [][NextHook]_vars

(***************************************************************************)
(* The timer (src/unnamed/part_005) and the Stop & Log Time action of the  *)
(* stop-timer command (src/src/stop-timer.tsx).  handleStop awaits         *)
(* stopTimer and then createWorklog; the call is one action up to the      *)
(* createWorklog request and one action when the request settles.          *)
(***************************************************************************)
\* The number of timers up to which the user goes on starting timers.
MaxTimers == 3

\* The issues a timer is started on
TimerIssueKeys == {<<"A", "B", "-", "1">>, <<"A", "B", "-", "2">>}

\* startTimer(entry): the entry is stored with its start (the start-timer
\* command with no timer running)
StartTimer ==
  /\ activeTimer = NoTimer
  /\ timersStarted < MaxTimers
  /\ \E k \in TimerIssueKeys :
       activeTimer' = [issueKey |-> k, start |-> timersStarted + 1]
  /\ timersStarted' = timersStarted + 1
  /\ UNCHANGED <<isStopping, stopCall, markdown, loggedTimers>>
  /\ UNCHANGED <<formVars, submitVars, timelineVars, besideTimer>>

\* The stop-timer command is opened: the first effect loads the timer
OpenStopTimer ==
  /\ stopCall = Idle
  /\ isStopping' = FALSE
  /\ markdown' = IF activeTimer = NoTimer THEN "No Active Timer" ELSE "Active Timer"
  /\ UNCHANGED <<activeTimer, timersStarted, stopCall, loggedTimers>>
  /\ UNCHANGED <<formVars, submitVars, timelineVars, besideTimer>>

\* stopTimer(): LocalStorage.removeItem(TIMER_KEY) once the item is read
stopTimer(stored) == NoTimer

\* Stop & Log Time is pressed: handleStop up to the createWorklog request.
\* The action is offered only with a timer loaded and isStopping false.
HandleStop ==
  /\ markdown = "Active Timer"
  /\ ~isStopping
  /\ isStopping' = TRUE
  /\ IF activeTimer = NoTimer
       THEN /\ markdown' = "No Active Timer"
            /\ UNCHANGED <<activeTimer, stopCall>>
       ELSE /\ activeTimer' = stopTimer(activeTimer)
            /\ stopCall' = [pc |-> "createWorklog", entry |-> activeTimer]
            /\ markdown' = "Logging Work..."
  /\ UNCHANGED <<timersStarted, loggedTimers>>
  /\ UNCHANGED <<formVars, submitVars, timelineVars, besideTimer>>

\* createWorklog resolves: the try block to its end
WorklogLogged ==
  /\ stopCall # Idle
  /\ loggedTimers' = Append(loggedTimers, stopCall.entry)
  /\ markdown' = "Work Logged"
  /\ stopCall' = Idle
  /\ UNCHANGED <<activeTimer, timersStarted, isStopping>>
  /\ UNCHANGED <<formVars, submitVars, timelineVars, besideTimer>>

\* createWorklog rejects: the catch block
WorklogFailed ==
  /\ stopCall # Idle
  /\ markdown' = "Failed to Log Work"
  /\ stopCall' = Idle
  /\ UNCHANGED <<activeTimer, timersStarted, isStopping, loggedTimers>>
  /\ UNCHANGED <<formVars, submitVars, timelineVars, besideTimer>>

NextTimer ==
  \/ StartTimer
  \/ OpenStopTimer
  \/ HandleStop
  \/ WorklogLogged
  \/ WorklogFailed

SpecTimer == Init /\ [][NextTimer]_vars

(***************************************************************************)
(* What the claims speak of, stated on the text itself.                    *)
(***************************************************************************)
\* The characters of s at [i, j) have the shape of an issue key: a letter,
\* one or more letters or digits, a hyphen, one or more digits, with a word
\* boundary on both sides.
IsIssueKeyShaped(s, i, j) ==
  /\ 1 <= i /\ i < j /\ j <= Len(s) + 1
  /\ s[i] \in Letters
  /\ \E d \in (i + 2)..(j - 2) :
       /\ s[d] = "-"
       /\ \A k \in (i + 1)..(d - 1) : s[k] \in AlNum
       /\ \A k \in (d + 1)..(j - 1) : s[k] \in Digits
  /\ (i = 1 \/ s[i - 1] \notin WordChars)
  /\ (j = Len(s) + 1 \/ s[j] \notin WordChars)

IssueKeyTokens(s) ==
  { t \in (1..Len(s)) \X (1..(Len(s) + 1)) : IsIssueKeyShaped(s, t[1], t[2]) }

HasIssueKeyToken(s) == IssueKeyTokens(s) # {}

IsBlank(s) == \A k \in DOMAIN s : s[k] \in Spaces

\* b is a in upper case
IsUpperCaseOf(b, a) ==
  /\ Len(b) = Len(a)
  /\ \A k \in DOMAIN a :
       /\ b[k] \notin Range(LowerSeq)
       /\ LowerChar(b[k]) = LowerChar(a[k])

(***************************************************************************)
(* C1: parseTimeEntry returns null for every input that is empty, blank or *)
(* holds no issue-key-shaped token, whatever duration or @time tokens it   *)
(* holds.                                                                  *)
(***************************************************************************)
C1_NoIssueKeyGivesNull ==
  (IsBlank(input) \/ ~HasIssueKeyToken(input)) => parsed = Null

\* An input with a duration and an @time token, and something close to a key
\* that is not one.
C1_Witness ==
  /\ ~HasIssueKeyToken(input)
  /\ \E k \in DOMAIN input : input[k] = "-" /\ At(input, k + 1) \in Digits
  /\ parseDuration(input) > 0
  /\ parseStartTime(input) # NullString
  /\ parsed = Null

(***************************************************************************)
(* C8: with several issue-key-shaped tokens in the input, the issueKey is  *)
(* the leftmost one in upper case; later tokens never change it.           *)
(***************************************************************************)
C8_LeftmostKeyUpperCased ==
  parsed # Null =>
    \E t \in IssueKeyTokens(input) :
      /\ \A u \in IssueKeyTokens(input) : t[1] <= u[1]
      /\ IsUpperCaseOf(parsed.issueKey, Sub(input, t[1], t[2]))

\* Two different key tokens, the leftmost in lower case.
C8_Witness ==
  /\ parsed # Null
  /\ \E t, u \in IssueKeyTokens(input) :
       /\ t[1] < u[1]
       /\ \A v \in IssueKeyTokens(input) : t[1] <= v[1]
       /\ input[t[1]] \in Range(LowerSeq)
       /\ parsed.issueKey # toUpperCase(Sub(input, u[1], u[2]))

(***************************************************************************)
(* C9: the documented results on the documented inputs.                    *)
(***************************************************************************)
C9_DocumentedExamples ==
  /\ input = ExampleMeeting =>
       parsed = [issueKey |-> <<"A", "B", "C", "-", "1", "2", "3">>,
                 durationSeconds |-> 9000,
                 startTime |-> <<"1", "4", ":", "0", "0", ":", "0", "0">>,
                 description |-> <<"t", "e", "a", "m", " ", "m", "e", "e", "t", "i", "n", "g">>]
  /\ input = ExampleLower =>
       parsed = [issueKey |-> <<"P", "R", "O", "J", "-", "4", "5", "6">>,
                 durationSeconds |-> 2700,
                 startTime |-> <<"1", "4", ":", "0", "0", ":", "0", "0">>,
                 description |-> <<"d", "o", "c", "u", "m", "e", "n", "t", "a", "t", "i", "o", "n">>]
  /\ input = ExampleBugFix =>
       /\ parsed # Null
       /\ parsed.durationSeconds = 5400
       /\ parsed.startTime = <<"0", "9", ":", "0", "0", ":", "0", "0">>

C9_Witness == input = ExampleLower /\ parsed # Null

(***************************************************************************)
(* C2: an input with an issue key and no duration token gives null: the    *)
(* digits of the issue keys and of the @time tokens are never read as      *)
(* hours or minutes.  Stated on the text: when every digit of the input    *)
(* lies in an issue-key token or in an @time token, the result is null.    *)
(***************************************************************************)
\* Position p is a digit of an issue-key token.
IsKeyDigit(s, p) ==
  \E t \in IssueKeyTokens(s) : t[1] <= p /\ p < t[2]

\* Position p is a digit of an @time token: the one or two hour digits after
\* "@" and blanks, or the two minute digits after the ":" that follows them.
IsTimeDigit(s, p) ==
  \E a \in 1..Len(s) : \E d \in (a + 1)..Len(s) :
    /\ s[a] = "@"
    /\ \A k \in (a + 1)..(d - 1) : s[k] \in Spaces
    /\ s[d] \in Digits
    /\ LET he == IF At(s, d + 1) \in Digits THEN d + 2 ELSE d + 1
       IN  \/ p \in d..(he - 1)
           \/ /\ At(s, he) = ":"
              /\ At(s, he + 1) \in Digits
              /\ At(s, he + 2) \in Digits
              /\ p \in {he + 1, he + 2}

NoDigitOutsideKeyAndTime(s) ==
  \A p \in DOMAIN s : s[p] \in Digits => IsKeyDigit(s, p) \/ IsTimeDigit(s, p)

C2_NoDurationGivesNull ==
  (HasIssueKeyToken(input) /\ NoDigitOutsideKeyAndTime(input)) => parsed = Null

\* A key and an @time token whose digits are followed by "m" or "h": read
\* without the stripping, the text would give a duration.
C2_Witness ==
  /\ HasIssueKeyToken(input)
  /\ NoDigitOutsideKeyAndTime(input)
  /\ \E p \in DOMAIN input : IsTimeDigit(input, p)
  /\ durationOf(replaceAll("issueKey", input)) > 0
  /\ parsed = Null

(***************************************************************************)
(* C3: a non-null result has an upper-case issueKey of the form            *)
(* [A-Z][A-Z0-9]+-[0-9]+ and a durationSeconds > 0, so validating it gives *)
(* either no error or the 24-hour range error.                             *)
(***************************************************************************)
IsStrictIssueKey(k) ==
  \E d \in 3..(Len(k) - 1) :
    /\ k[1] \in Range(UpperSeq)
    /\ \A i \in 2..(d - 1) : k[i] \in Range(UpperSeq) \cup Digits
    /\ k[d] = "-"
    /\ \A i \in (d + 1)..Len(k) : k[i] \in Digits

C3_ParserOutputValid ==
  parsed # Null =>
    /\ IsStrictIssueKey(parsed.issueKey)
    /\ parsed.durationSeconds \in Nat \ {0}
    /\ validationError \in {NoError, ErrRange}

\* A lower-case key and a duration above 24 hours.
C3_Witness ==
  /\ parsed # Null
  /\ validationError = ErrRange
  /\ \E t \in IssueKeyTokens(input) : input[t[1]] \in Range(LowerSeq)

(***************************************************************************)
(* C4: the duration is taken from the first of three patterns that         *)
(* matches: hours followed by minutes, round(hours*3600 + minutes*60);     *)
(* hours alone, round(hours*3600); minutes alone, minutes*60 with whole    *)
(* minutes.  Minutes before hours ("30m 2h") give the hours alone, and a   *)
(* minutes-only result is a multiple of 60.                                *)
(***************************************************************************)
\* Hour numerals with their value num/den, minute numerals with their value.
HourNumerals ==
  { [txt |-> <<"2">>, num |-> 2, den |-> 1],
    [txt |-> <<"1", ".", "5">>, num |-> 15, den |-> 10] }

MinuteNumerals ==
  { [txt |-> <<"3", "0">>, val |-> 30] }

\* num/den rounded to the nearest integer, a half up
RoundHalfUp(num, den) == (2 * num + den) \div (2 * den)

HoursSeconds(h) == RoundHalfUp(h.num * 3600, h.den)

\* Texts holding duration tokens, and the seconds the claim gives them.
DurationCases ==
  { [txt |-> h.txt \o <<"h">> \o sep \o m.txt \o <<"m">>,
     secs |-> RoundHalfUp(h.num * 3600 + m.val * 60 * h.den, h.den)] :
       h \in HourNumerals, m \in MinuteNumerals, sep \in {<<>>, <<" ">>} }
  \cup
  { [txt |-> h.txt \o <<"h">>, secs |-> HoursSeconds(h)] : h \in HourNumerals }
  \cup
  { [txt |-> m.txt \o <<"m">>, secs |-> m.val * 60] : m \in MinuteNumerals }
  \cup
  { [txt |-> m.txt \o <<"m", " ">> \o h.txt \o <<"h">>, secs |-> HoursSeconds(h)] :
       h \in HourNumerals, m \in MinuteNumerals }
  \cup
  { [txt |-> h.txt \o <<"m", " ">> \o g.txt \o <<"h">>, secs |-> HoursSeconds(g)] :
       h \in HourNumerals, g \in HourNumerals }

C4_DurationPriority ==
  /\ \A c \in DurationCases :
       (\/ input = <<"A", "B", "-", "1", " ">> \o c.txt
        \/ input = <<" ">> \o c.txt \o <<" ", "c", "d", "-", "2">>)
         => parsed # Null /\ parsed.durationSeconds = c.secs
  /\ (parsed # Null /\ \A k \in DOMAIN input : LowerChar(input[k]) # "h")
       => parsed.durationSeconds % 60 = 0

\* The claim's "30m 2h" after a key.
C4_Witness ==
  /\ input = <<"A", "B", "-", "1", " ", "3", "0", "m", " ", "2", "h">>
  /\ parsed # Null
  /\ parsed.durationSeconds = 7200

(***************************************************************************)
(* C5: the hour of an @H[:MM][am|pm] token.  The claim as stated adds 12   *)
(* for pm unless the hour is 12; the code adds 12 for pm only when the     *)
(* hour is below 12, so 13pm..23pm keep their hour.  am turns 12 into 0,   *)
(* no marker leaves the hour, a missing minute is 0, and the result is     *)
(* range-checked and written HH:MM:00.                                     *)
(***************************************************************************)
\* @time tokens with the hour, the minute and the marker they state.
TimeHourTexts ==
  { [txt |-> <<"9">>, val |-> 9], [txt |-> <<"1", "2">>, val |-> 12],
    [txt |-> <<"1", "3">>, val |-> 13], [txt |-> <<"2", "5">>, val |-> 25] }

TimeMinuteTexts ==
  { [txt |-> <<>>, val |-> 0], [txt |-> <<":", "3", "0">>, val |-> 30],
    [txt |-> <<":", "7", "5">>, val |-> 75] }

TimeMarkerTexts ==
  { [txt |-> <<>>, val |-> "none"], [txt |-> <<"a", "m">>, val |-> "am"],
    [txt |-> <<"p", "m">>, val |-> "pm"], [txt |-> <<" ", "P", "M">>, val |-> "pm"] }

TimeCases ==
  { [txt |-> <<" ", "@">> \o h.txt \o m.txt \o k.txt,
     hour |-> h.val, minute |-> m.val, marker |-> k.val] :
       h \in TimeHourTexts, m \in TimeMinuteTexts, k \in TimeMarkerTexts }

\* HH:MM:00, or Undefined out of range
ExpectedStartTime(hour, minute) ==
  IF hour \in 0..23 /\ minute \in 0..59
    THEN <<DigitSeq[(hour \div 10) + 1], DigitSeq[(hour % 10) + 1], ":",
           DigitSeq[(minute \div 10) + 1], DigitSeq[(minute % 10) + 1], ":", "0", "0">>
    ELSE Undefined

\* The claim's rule: pm adds 12 unless the hour is 12.
ClaimedHour(hour, marker) ==
  IF marker = "pm" THEN (IF hour = 12 THEN 12 ELSE hour + 12)
  ELSE IF marker = "am" THEN (IF hour = 12 THEN 0 ELSE hour)
  ELSE hour

\* The amended rule: pm adds 12 only below 12.
AmendedHour(hour, marker) ==
  IF marker = "pm" THEN (IF hour < 12 THEN hour + 12 ELSE hour)
  ELSE IF marker = "am" THEN (IF hour = 12 THEN 0 ELSE hour)
  ELSE hour

KeyAndDuration == <<"A", "B", "-", "1", " ", "2", "h">>

\* C5 as stated: refuted by "AB-1 2h @13pm", whose startTime is 13:00:00.
C5_StartTimeAsClaimed ==
  \A c \in TimeCases :
    input = KeyAndDuration \o c.txt =>
      /\ parsed # Null
      /\ parsed.startTime = ExpectedStartTime(ClaimedHour(c.hour, c.marker), c.minute)

\* C5 amended: pm adds 12 only when the hour is below 12.
C5_StartTimeAmended ==
  \A c \in TimeCases :
    input = KeyAndDuration \o c.txt =>
      /\ parsed # Null
      /\ parsed.startTime = ExpectedStartTime(AmendedHour(c.hour, c.marker), c.minute)

C5_Witness ==
  /\ input = KeyAndDuration \o <<" ", "@", "1", "3", "p", "m">>
  /\ parsed # Null
  /\ parsed.startTime = <<"1", "3", ":", "0", "0", ":", "0", "0">>

(***************************************************************************)
(* C6: an @time token out of range (hour outside 0..23 or minute outside   *)
(* 0..59) only drops the start time: an input with an issue key that       *)
(* parses without the token (a token standing apart, blanks around it)     *)
(* parses with it, to the same issueKey and durationSeconds, with no       *)
(* startTime.                                                              *)
(***************************************************************************)
\* The first @time token of s is out of range.
FirstTimeOutOfRange(s) ==
  LET at == FirstMatch("time", s, 1)
  IN  /\ at # NoMatch
      /\ \/ AmendedHour(timeHours(s, at),
                        IF timeMeridiem(s, at) = <<"p", "m">> THEN "pm"
                        ELSE IF timeMeridiem(s, at) = <<"a", "m">> THEN "am"
                        ELSE "none") \notin 0..23
         \/ timeMinutes(s, at) \notin 0..59

\* s without its first @time token
WithoutFirstTime(s) ==
  LET at == FirstMatch("time", s, 1)
  IN  Sub(s, 1, at) \o Sub(s, TimeMatch(s, at), Len(s) + 1)

\* The first @time token of s stands apart: a blank or an end of the text
\* on both sides.
FirstTimeStandsApart(s) ==
  LET at == FirstMatch("time", s, 1)
      end == TimeMatch(s, at)
  IN  /\ at = 1 \/ s[at - 1] \in Spaces
      /\ end = Len(s) + 1 \/ s[end] \in Spaces \/ s[end - 1] \in Spaces

DescriptionPrefixes ==
  {<<"A", "B", "-", "1", " ", "2", "h">>,
   <<"A", "B", "-", "1", " ", "3", "0", "m">>,
   <<"A", "B", "-", "1", " ", "2", "h", "3", "0", "m">>}

DescriptionTimes ==
  {<<>>,
   <<" ", "@", "9">>,
   <<" ", "@", " ", "2", "p", "m">>}

FreeTexts ==
  {<<"f", "i", "x">>,
   <<"m", "e", "e", "t", "i", "n", "g">>,
   <<"a", "m", "e", "n", "d">>,
   <<"m", "i", "n", "o", "r">>}

C7_DescriptionIsFreeText ==
  \A pre \in DescriptionPrefixes : \A time \in DescriptionTimes :
    /\ \A text \in FreeTexts :
         input = pre \o time \o <<" ">> \o text =>
           parsed # Null /\ parsed.description = text
    /\ input = pre \o time =>
         parsed # Null /\ parsed.description = Undefined

(***************************************************************************)
(* C10: validateParsedEntry gives no error exactly when the entry is not   *)
(* null, its issueKey matches the issue-key pattern (in either case) and   *)
(* 0 < durationSeconds <= 86400.                                           *)
(***************************************************************************)
C10_ValidExactlyWhen ==
  validationError # Pending =>
    /\ validationError = NoError <=>
         /\ parsed # Null
         /\ IsStrictIssueKey(toUpperCase(parsed.issueKey))
         /\ parsed.durationSeconds > 0
         /\ parsed.durationSeconds <= 86400
    /\ validationError \in {NoError, ErrParse, ErrIssueKey, ErrDuration, ErrRange}

\* An entry of exactly 24 hours, accepted.
C10_Witness ==
  /\ validationError = NoError
  /\ parsed # Null
  /\ parsed.durationSeconds = 86400

(***************************************************************************)
(* C11: the quick-log form never submits on a non-null validation result.  *)
(* Whatever the order of input changes, effects and submit presses, a      *)
(* handleSubmit call goes on to its requests, and createWorklog is called, *)
(* only with a parsed entry that is not null and that validateParsedEntry  *)
(* accepts, and the request carries that entry's duration; a submit press  *)
(* on a null entry or a validation error reports that error as             *)
(* "Invalid Input" and creates no worklog.                                 *)
(***************************************************************************)
\* A submit press: the step of an idle handler that reports or starts a call
IsSubmitPress ==
  submitCall = Idle /\ (errors' # errors \/ submitCall' # Idle)

C11_SubmitOnlyValidEntry ==
  /\ [](submitCall # Idle =>
          /\ submitCall.parsed # Null
          /\ validateParsedEntry(submitCall.parsed) = NoError)
  /\ [][createdWorklogs' # createdWorklogs =>
          /\ submitCall # Idle
          /\ Len(createdWorklogs') = Len(createdWorklogs) + 1
          /\ createdWorklogs'[Len(createdWorklogs')].timeSpentSeconds
               = submitCall.parsed.durationSeconds]_vars
  /\ [][IsSubmitPress /\ (parsed = Null \/ validationError # NoError) =>
          /\ errors' = Append(errors, [title |-> "Invalid Input",
                                       message |-> validationError])
          /\ createdWorklogs' = createdWorklogs
          /\ submitCall' = Idle]_vars

\* A worklog was created and a submit on an entry beyond 24 hours rejected.
C11_Witness ==
  /\ Len(createdWorklogs) = 1
  /\ Len(errors) = 1
  /\ errors[1].title = "Invalid Input"
  /\ errors[1].message = ErrRange

(***************************************************************************)
(* C12: formatParsedEntry shows the whole hours and/or the whole minutes   *)
(* of the duration after "<KEY>: " as "<h>h <m>m", "<h>h" or "<m>m": a     *)
(* component is shown exactly when it is not zero, and it shows that       *)
(* number.  As claimed this covers every duration, those below a minute    *)
(* too; as amended a duration below a minute is shown as "0m".             *)
(***************************************************************************)
\* The numerals of the duration shown at position p of a preview text: the
\* hours numeral before an "h", the minutes numeral before an "m", each
\* empty when the component is not shown.
ShownDuration(text, p) ==
  LET a == SkipWhile(text, p, Digits)
      b == SkipWhile(text, a + 2, Digits)
  IN  IF a > p /\ At(text, a) = "h"
        THEN IF At(text, a + 1) = " " /\ b > a + 2 /\ At(text, b) = "m"
               THEN [hours |-> Sub(text, p, a), minutes |-> Sub(text, a + 2, b)]
               ELSE [hours |-> Sub(text, p, a), minutes |-> <<>>]
      ELSE IF a > p /\ At(text, a) = "m"
        THEN [hours |-> <<>>, minutes |-> Sub(text, p, a)]
      ELSE [hours |-> <<>>, minutes |-> <<>>]

\* The numeral shows the positive number n, without a leading zero
ShowsNumber(numeral, n) ==
  /\ n > 0
  /\ numeral # <<>>
  /\ numeral[1] # "0"
  /\ parseInt(numeral) = n

\* The preview of entry starts with its key and ": ", and then shows the
\* component hours (minutes) exactly when it is not zero.
ShowsNonZeroComponents(entry, text) ==
  LET shown == ShownDuration(text, Len(entry.issueKey) + 3)
      h == entry.durationSeconds \div 3600
      m == (entry.durationSeconds % 3600) \div 60
  IN  /\ Sub(text, 1, Len(entry.issueKey) + 3) = entry.issueKey \o <<":", " ">>
      /\ shown.hours # <<>> \/ shown.minutes # <<>>
      /\ IF h = 0 THEN shown.hours = <<>> ELSE ShowsNumber(shown.hours, h)
      /\ IF m = 0 THEN shown.minutes = <<>> ELSE ShowsNumber(shown.minutes, m)

\* The preview of an entry below a minute shows "0m" and no hours
ShowsZeroMinutes(entry, text) ==
  LET shown == ShownDuration(text, Len(entry.issueKey) + 3)
  IN  /\ Sub(text, 1, Len(entry.issueKey) + 3) = entry.issueKey \o <<":", " ">>
      /\ shown.hours = <<>>
      /\ shown.minutes = <<"0">>

C12_NeverZeroComponent ==
  parsed # Null => ShowsNonZeroComponents(parsed, formatParsedEntry(parsed))

C12_ZeroComponentOnlyBelowMinute ==
  parsed # Null =>
    IF parsed.durationSeconds < 60
      THEN ShowsZeroMinutes(parsed, formatParsedEntry(parsed))
      ELSE ShowsNonZeroComponents(parsed, formatParsedEntry(parsed))

\* The preview of an entry below a minute, with a start time after the
\* duration
C12_Witness ==
  /\ parsed # Null
  /\ parsed.durationSeconds = 36
  /\ parsed.startTime # Undefined
  /\ ShowsZeroMinutes(parsed, formatParsedEntry(parsed))

(***************************************************************************)
(* What the timeline claims speak of, stated on the blocks themselves.     *)
(***************************************************************************)
\* The two digits of a clock text at position i, as a number
TwoDigits(t, i) == DigitOf[t[i]] * 10 + DigitOf[t[i + 1]]

\* The time of day of a clock text HH:MM or HH:MM:SS, in seconds (a minute
\* has 60 of them: the sixtieths in which the model holds minutes)
ClockSeconds(t) ==
  TwoDigits(t, 1) * 3600 + TwoDigits(t, 4) * 60
    + (IF Len(t) >= 8 THEN TwoDigits(t, 7) ELSE 0)

\* The blocks that detectConflicts is given
GivenBlocks == allBlocks(blocks, plannedBlock)

\* The pairs of positions of GivenBlocks, the first before the second
BlockPairs ==
  { p \in (DOMAIN GivenBlocks) \X (DOMAIN GivenBlocks) : p[1] < p[2] }

\* max(start1, start2) of the pair
LatestStart(p) ==
  LET s1 == ClockSeconds(GivenBlocks[p[1]].startTime)
      s2 == ClockSeconds(GivenBlocks[p[2]].startTime)
  IN  IF s1 > s2 THEN s1 ELSE s2

\* min(end1, end2) of the pair
EarliestEnd(p) ==
  LET e1 == ClockSeconds(GivenBlocks[p[1]].endTime)
      e2 == ClockSeconds(GivenBlocks[p[2]].endTime)
  IN  IF e1 < e2 THEN e1 ELSE e2

\* The pairs that overlap by more than nothing
OverlappingPairs == { p \in BlockPairs : LatestStart(p) < EarliestEnd(p) }

\* The block runs from the clock text from to the clock text to
RunsFromTo(block, from, to) == block.startTime = from /\ block.endTime = to

(***************************************************************************)
(* C14: detectConflicts records a conflict for a pair of blocks exactly    *)
(* when max(start1, start2) < min(end1, end2), with overlapMinutes the     *)
(* difference, above 0: there are as many conflicts as overlapping pairs,  *)
(* every overlapping pair has its conflict with that overlap and every     *)
(* conflict is one of an overlapping pair; blocks that only touch          *)
(* (09:00-10:00, 10:00-11:00) give none, 09:00-10:30 with 10:00-11:00      *)
(* gives exactly one, of 30 minutes.                                       *)
(***************************************************************************)
C14_ConflictIffStrictOverlap ==
  conflicts # PendingList =>
    /\ Len(conflicts) = Cardinality(OverlappingPairs)
    /\ \A p \in OverlappingPairs :
         \E k \in DOMAIN conflicts :
           conflicts[k] = [block1 |-> GivenBlocks[p[1]],
                           block2 |-> GivenBlocks[p[2]],
                           overlapMinutes |-> EarliestEnd(p) - LatestStart(p)]
    /\ \A k \in DOMAIN conflicts :
         /\ conflicts[k].overlapMinutes > 0
         /\ \E p \in OverlappingPairs :
              /\ {conflicts[k].block1, conflicts[k].block2}
                   = {GivenBlocks[p[1]], GivenBlocks[p[2]]}
              /\ conflicts[k].overlapMinutes = EarliestEnd(p) - LatestStart(p)
    /\ (/\ Len(GivenBlocks) = 2
        /\ RunsFromTo(GivenBlocks[1], <<"0","9",":","0","0",":","0","0">>,
                      <<"1","0",":","0","0">>)
        /\ RunsFromTo(GivenBlocks[2], <<"1","0",":","0","0",":","0","0">>,
                      <<"1","1",":","0","0">>))
         => conflicts = <<>>
    /\ (/\ Len(GivenBlocks) = 2
        /\ RunsFromTo(GivenBlocks[1], <<"0","9",":","0","0",":","0","0">>,
                      <<"1","0",":","3","0">>)
        /\ RunsFromTo(GivenBlocks[2], <<"1","0",":","0","0",":","0","0">>,
                      <<"1","1",":","0","0">>))
         => Len(conflicts) = 1 /\ conflicts[1].overlapMinutes = 30 * 60

\* Three blocks 09:00-10:00, 10:00-11:00 and 09:00-10:30: the first two only
\* touch, the third overlaps the second by 30 minutes and the first by 60.
C14_Witness ==
  /\ conflicts # PendingList
  /\ Len(GivenBlocks) = 3
  /\ RunsFromTo(GivenBlocks[1], <<"0","9",":","0","0",":","0","0">>,
                <<"1","0",":","0","0">>)
  /\ RunsFromTo(GivenBlocks[2], <<"1","0",":","0","0",":","0","0">>,
                <<"1","1",":","0","0">>)
  /\ RunsFromTo(GivenBlocks[3], <<"0","9",":","0","0",":","0","0">>,
                <<"1","0",":","3","0">>)
  /\ Len(conflicts) = 2
  /\ conflicts[2].overlapMinutes = 30 * 60

(***************************************************************************)
(* C15: the conflicts follow the nested traversal of the input.  The k-th  *)
(* conflict is the conflict of the k-th overlapping pair of positions      *)
(* (i, j), i < j, in the order of ascending i and then ascending j, with   *)
(* block1 the block at i and block2 the block at j: so block1 comes before *)
(* block2 in the input, no pair is listed twice and no block is paired     *)
(* with itself.                                                            *)
(***************************************************************************)
\* The pair q comes before the pair p: ascending first position, then second
PairBefore(q, p) == q[1] < p[1] \/ (q[1] = p[1] /\ q[2] < p[2])

\* The k-th overlapping pair in that order
OverlappingPairAt(k) ==
  CHOOSE p \in OverlappingPairs :
    Cardinality({ q \in OverlappingPairs : PairBefore(q, p) }) = k - 1

C15_ConflictsInTraversalOrder ==
  conflicts # PendingList =>
    /\ Len(conflicts) = Cardinality(OverlappingPairs)
    /\ \A k \in DOMAIN conflicts :
         /\ conflicts[k].block1 = GivenBlocks[OverlappingPairAt(k)[1]]
         /\ conflicts[k].block2 = GivenBlocks[OverlappingPairAt(k)[2]]

\* Three conflicts among four different blocks, in an order that is neither
\* that of the start times nor that of the overlaps
C15_Witness ==
  /\ conflicts # PendingList
  /\ Len(conflicts) >= 3
  /\ Cardinality({ GivenBlocks[k] : k \in DOMAIN GivenBlocks }) = 4
  /\ ClockSeconds(conflicts[1].block1.startTime)
       > ClockSeconds(conflicts[2].block2.startTime)
  /\ conflicts[1].overlapMinutes > conflicts[2].overlapMinutes
  /\ conflicts[2].overlapMinutes < conflicts[3].overlapMinutes

(***************************************************************************)
(* C16: calculateEndTime(startTime, durationSeconds) is the zero-padded    *)
(* HH:MM of the start in minutes since midnight plus durationSeconds / 60, *)
(* HH the whole hours and MM the whole minutes left, without rollover at   *)
(* midnight: ("09:00:00", 1800) gives "09:30", ("23:30:00", 7200) gives    *)
(* "25:30".  Stated of the end time of every block built from a worklog    *)
(* and of the planned block.                                               *)
(***************************************************************************)
\* end is the HH:MM of the time that many seconds after midnight
IsClockOf(end, seconds) ==
  /\ Len(end) = 5
  /\ end[3] = ":"
  /\ \A k \in {1, 2, 4, 5} : end[k] \in Digits
  /\ TwoDigits(end, 1) = seconds \div 3600
  /\ TwoDigits(end, 4) = (seconds % 3600) \div 60

\* The block ends where its start and its duration put it
EndsAfterDuration(block) ==
  IsClockOf(block.endTime, ClockSeconds(block.startTime) + block.durationSeconds)

C16_EndTimeWithoutRollover ==
  blocks # PendingList =>
    \A k \in DOMAIN GivenBlocks :
      /\ EndsAfterDuration(GivenBlocks[k])
      /\ (/\ GivenBlocks[k].startTime = <<"0","9",":","0","0",":","0","0">>
          /\ GivenBlocks[k].durationSeconds = 1800)
           => GivenBlocks[k].endTime = <<"0","9",":","3","0">>
      /\ (/\ GivenBlocks[k].startTime = <<"2","3",":","3","0",":","0","0">>
          /\ GivenBlocks[k].durationSeconds = 7200)
           => GivenBlocks[k].endTime = <<"2","5",":","3","0">>

\* The planned block crosses midnight and ends at 25:30, and a block of a
\* worklog that starts at a half minute ends on a whole minute
C16_Witness ==
  /\ blocks # PendingList
  /\ plannedBlock # NoPlannedBlock
  /\ plannedBlock.endTime = <<"2","5",":","3","0">>
  /\ \E k \in DOMAIN blocks :
       /\ ClockSeconds(blocks[k].startTime) % 60 = 30
       /\ blocks[k].endTime = <<"1","1",":","0","0">>

(***************************************************************************)
(* C17: worklogsToTimeBlocks maps the worklogs one to one, in order: the   *)
(* k-th block is the block of the k-th worklog, with isPlanned false,      *)
(* durationSeconds its timeSpentSeconds, startTime its start time or       *)
(* "09:00:00" when it has none, and endTime the calculateEndTime of that   *)
(* start time and timeSpentSeconds.                                        *)
(***************************************************************************)
\* The worklog has a start time
HasStartTime(log) == log.startTime # Undefined /\ log.startTime # <<>>

C17_BlocksMirrorWorklogs ==
  blocks # PendingList =>
    /\ Len(blocks) = Len(worklogs)
    /\ \A k \in DOMAIN worklogs :
         /\ blocks[k].isPlanned = FALSE
         /\ blocks[k].durationSeconds = worklogs[k].timeSpentSeconds
         /\ blocks[k].startTime =
              (IF HasStartTime(worklogs[k]) THEN worklogs[k].startTime
               ELSE <<"0","9",":","0","0",":","0","0">>)
         /\ blocks[k].endTime =
              calculateEndTime(blocks[k].startTime, worklogs[k].timeSpentSeconds)
         /\ EndsAfterDuration(blocks[k])

\* Three different worklogs, the second without a start time
C17_Witness ==
  /\ blocks # PendingList
  /\ Len(worklogs) = 3
  /\ Cardinality({ worklogs[k] : k \in DOMAIN worklogs }) = 3
  /\ HasStartTime(worklogs[1])
  /\ ~HasStartTime(worklogs[2])
  /\ blocks[2].startTime = <<"0","9",":","0","0",":","0","0">>
  /\ blocks[1].startTime # blocks[3].startTime

(***************************************************************************)
(* What the timeline text shows, read from the text itself.                *)
(***************************************************************************)
\* The positions of the block markers in a timeline text
MarkerPositions(text) == { i \in DOMAIN text : text[i] \in {"BLUE", "GREEN"} }

\* The k-th of the marker positions
MarkerAt(markers, k) ==
  CHOOSE i \in markers : Cardinality({ j \in markers : j < i }) = k - 1

\* The end of the line that position i is on: the position of its "\n"
RECURSIVE LineEnd(_, _)
LineEnd(text, i) ==
  IF i > Len(text) \/ text[i] = "\n" THEN i ELSE LineEnd(text, i + 1)

\* The line after the line that position i is on
LineAfter(text, i) ==
  Sub(text, LineEnd(text, i) + 1, LineEnd(text, LineEnd(text, i) + 1))

\* The start time shown on the marker line at position i
ShownStart(text, i) == SubSeq(text, i + 2, i + 9)

\* line begins with prefix
BeginsWith(line, prefix) ==
  Len(line) >= Len(prefix) /\ SubSeq(line, 1, Len(prefix)) = prefix

\* The marker line at position i and the line after it show the block: its
\* marker, its time range, and its issue key at the start of the next line
ShowsBlock(text, i, block) ==
  /\ text[i] = (IF block.isPlanned THEN "BLUE" ELSE "GREEN")
  /\ BeginsWith(Sub(text, i + 1, LineEnd(text, i)),
                <<" ">> \o block.startTime \o <<" ", "-", " ">> \o block.endTime
                  \o <<" ", "(">>)
  /\ \/ LineAfter(text, i) = <<" ", " ", " ">> \o block.issueKey
     \/ BeginsWith(LineAfter(text, i),
                   <<" ", " ", " ">> \o block.issueKey \o <<" ", "-", " ">>)

\* The position in GivenBlocks of the block that is k-th by start time, the
\* blocks of one start time in their input order
StableAt(k) ==
  CHOOSE i \in DOMAIN GivenBlocks :
    Cardinality({ j \in DOMAIN GivenBlocks :
                    \/ ClockSeconds(GivenBlocks[j].startTime)
                         < ClockSeconds(GivenBlocks[i].startTime)
                    \/ /\ GivenBlocks[j].startTime = GivenBlocks[i].startTime
                       /\ j < i }) = k - 1

(***************************************************************************)
(* C18: generateSimpleTimeline lists every existing block and the planned  *)
(* block, if there is one, exactly once, by ascending start time whatever  *)
(* the input order, blocks of one start time in their input order (the     *)
(* sort is stable): the text has one marker line per block, the start      *)
(* times shown ascend, the k-th marker line shows the block that is k-th   *)
(* by start time and input position, and a planned block comes after the   *)
(* existing blocks of its start time.                                      *)
(***************************************************************************)
C18_TimelineSortedAndStable ==
  timeline # PendingText =>
    LET markers == MarkerPositions(timeline)
    IN  /\ Cardinality(markers) = Len(GivenBlocks)
        /\ \A k \in DOMAIN GivenBlocks :
             ShowsBlock(timeline, MarkerAt(markers, k), GivenBlocks[StableAt(k)])
        /\ \A i, j \in markers :
             i < j => ClockSeconds(ShownStart(timeline, i))
                        <= ClockSeconds(ShownStart(timeline, j))
        /\ \A i, j \in markers :
             (/\ timeline[i] = "BLUE"
              /\ timeline[j] = "GREEN"
              /\ ShownStart(timeline, i) = ShownStart(timeline, j)) => j < i

\* Existing blocks given out of order, two of them from 09:00 (the longer
\* one first), and a planned block from 09:00 too
C18_Witness ==
  /\ timeline # PendingText
  /\ plannedBlock # NoPlannedBlock
  /\ Len(blocks) = 3
  /\ ClockSeconds(blocks[1].startTime) > ClockSeconds(blocks[2].startTime)
  /\ blocks[2].startTime = blocks[3].startTime
  /\ blocks[2].startTime = plannedBlock.startTime
  /\ blocks[2].durationSeconds > blocks[3].durationSeconds

(***************************************************************************)
(* C19: generateConflictSummary returns the fixed no-conflicts message for *)
(* an empty list, and otherwise one line per conflict, in list order, that *)
(* names both issue keys and start times and ends with the overlap: in     *)
(* hours with one decimal when the overlap is at least 60 minutes, in      *)
(* whole minutes otherwise.  As claimed a minutes figure shown is always   *)
(* below 60; as amended it is the overlap rounded to the nearest minute    *)
(* and can be 60.                                                          *)
(***************************************************************************)
\* The positions of the bullets in a summary text
BulletPositions(text) == { i \in DOMAIN text : text[i] = "BULLET" }

\* What the line of a conflict says before the overlap
ConflictLineStart(conflict) ==
  <<"BULLET", " ">> \o conflict.block1.issueKey
    \o <<" ", "(">> \o conflict.block1.startTime
    \o <<")", " ", "o", "v", "e", "r", "l", "a", "p", "s", " ", "w", "i", "t", "h", " ">>
    \o conflict.block2.issueKey
    \o <<" ", "(">> \o conflict.block2.startTime
    \o <<")", " ", "b", "y", " ">>

\* A numeral: digits, without a leading zero unless it is "0"
IsNumeral(ds) ==
  /\ Len(ds) >= 1
  /\ \A k \in DOMAIN ds : ds[k] \in Digits
  /\ Len(ds) > 1 => ds[1] # "0"

\* figure is "<hours>.<tenth>h", the number of tenths of an hour nearest to
\* the overlap (given in sixtieths of a minute: a tenth of an hour is 360)
IsHoursFigure(figure, overlap) ==
  /\ Len(figure) >= 4
  /\ figure[Len(figure)] = "h"
  /\ figure[Len(figure) - 2] = "."
  /\ figure[Len(figure) - 1] \in Digits
  /\ IsNumeral(SubSeq(figure, 1, Len(figure) - 3))
  /\ LET tenths == parseInt(SubSeq(figure, 1, Len(figure) - 3)) * 10
                     + DigitOf[figure[Len(figure) - 1]]
     IN  /\ 2 * (tenths * 360 - overlap) <= 360
         /\ 2 * (overlap - tenths * 360) <= 360

\* figure is "<minutes>m", the number of whole minutes nearest to the
\* overlap and at most limit
IsMinutesFigure(figure, overlap, limit) ==
  /\ Len(figure) >= 2
  /\ figure[Len(figure)] = "m"
  /\ IsNumeral(SubSeq(figure, 1, Len(figure) - 1))
  /\ LET minutes == parseInt(SubSeq(figure, 1, Len(figure) - 1))
     IN  /\ 2 * (minutes * 60 - overlap) <= 60
         /\ 2 * (overlap - minutes * 60) <= 60
         /\ minutes <= limit

\* The summary has one line per conflict, in list order, each naming the
\* keys and start times and ending with the overlap figure, a minutes figure
\* being at most limit
SummaryLinesShow(limit) ==
  LET bullets == BulletPositions(conflictSummary)
  IN  /\ Cardinality(bullets) = Len(conflicts)
      /\ \A k \in DOMAIN conflicts :
           LET i == MarkerAt(bullets, k)
               line == Sub(conflictSummary, i, LineEnd(conflictSummary, i))
               start == ConflictLineStart(conflicts[k])
               figure == SubSeq(line, Len(start) + 1, Len(line))
           IN  /\ BeginsWith(line, start)
               /\ IF conflicts[k].overlapMinutes >= 60 * 60
                    THEN IsHoursFigure(figure, conflicts[k].overlapMinutes)
                    ELSE IsMinutesFigure(figure, conflicts[k].overlapMinutes, limit)

C19_MinutesFigureBelow60 ==
  conflictSummary # PendingText =>
    IF conflicts = <<>> THEN conflictSummary = NoConflictsMessage
    ELSE SummaryLinesShow(59)

C19_MinutesFigureRounded ==
  conflictSummary # PendingText =>
    IF conflicts = <<>> THEN conflictSummary = NoConflictsMessage
    ELSE SummaryLinesShow(60)

\* Three conflicts: one of exactly 60 minutes, one of 89.5 minutes and one
\* of 59.5 minutes, which the summary shows as 60m
C19_Witness ==
  /\ conflictSummary # PendingText
  /\ Len(conflicts) = 3
  /\ \E k \in DOMAIN conflicts : conflicts[k].overlapMinutes = 60 * 60
  /\ \E k \in DOMAIN conflicts : conflicts[k].overlapMinutes = 89 * 60 + 30
  /\ \E k \in DOMAIN conflicts : conflicts[k].overlapMinutes = 59 * 60 + 30
  /\ SummaryLinesShow(60)

(***************************************************************************)
(* C20: generateSimpleTimeline renders each block as the marker of its     *)
(* kind (planned or existing), its time range, its duration, then on the   *)
(* next line its issue key and its description, cut to 40 characters and   *)
(* followed by "..." only when it is longer than 40 characters; an absent  *)
(* description adds nothing.  The duration is "Xh Ym" or "Ym" of the       *)
(* duration rounded to minutes: as claimed "Xh Ym" exactly when the block  *)
(* lasts at least one hour, as amended exactly when the rounded minutes    *)
(* are at least 60.                                                        *)
(***************************************************************************)
\* The minutes nearest to a duration in seconds, a half minute going up
NearestMinutes(seconds) ==
  CHOOSE m \in 0..(seconds \div 60 + 1) :
    2 * (m * 60 - seconds) <= 60 /\ 2 * (seconds - m * 60) < 60

\* text is "<X>h <Y>m" of the minutes
IsHoursAndMinutes(text, minutes) ==
  LET p == SkipWhile(text, 1, Digits)
  IN  /\ IsNumeral(SubSeq(text, 1, p - 1))
      /\ parseInt(SubSeq(text, 1, p - 1)) = minutes \div 60
      /\ SubSeq(text, p, p + 1) = <<"h", " ">>
      /\ Len(text) >= p + 3
      /\ text[Len(text)] = "m"
      /\ IsNumeral(SubSeq(text, p + 2, Len(text) - 1))
      /\ parseInt(SubSeq(text, p + 2, Len(text) - 1)) = minutes % 60

\* text is "<Y>m" of the minutes
IsMinutesOnly(text, minutes) ==
  /\ Len(text) >= 2
  /\ text[Len(text)] = "m"
  /\ IsNumeral(SubSeq(text, 1, Len(text) - 1))
  /\ parseInt(SubSeq(text, 1, Len(text) - 1)) = minutes

\* What is shown of a description: nothing of an absent one, all of one of
\* at most 40 characters, the first 40 characters and "..." of a longer one
ShownDescription(description) ==
  IF description = Undefined \/ description = <<>> THEN <<>>
  ELSE IF Len(description) <= 40 THEN <<" ", "-", " ">> \o description
  ELSE <<" ", "-", " ">> \o [k \in 1..40 |-> description[k]] \o <<".", ".", ".">>

\* The two lines at marker position i render the block, its duration in
\* hours and minutes if inHours and in minutes if not
RendersBlock(text, i, block, inHours) ==
  LET line == Sub(text, i, LineEnd(text, i))
      start == <<IF block.isPlanned THEN "BLUE" ELSE "GREEN", " ">>
                 \o block.startTime \o <<" ", "-", " ">> \o block.endTime
                 \o <<" ", "(">>
      duration == SubSeq(line, Len(start) + 1, Len(line) - 1)
  IN  /\ BeginsWith(line, start)
      /\ line[Len(line)] = ")"
      /\ IF inHours
           THEN IsHoursAndMinutes(duration, NearestMinutes(block.durationSeconds))
           ELSE IsMinutesOnly(duration, NearestMinutes(block.durationSeconds))
      /\ LineAfter(text, i)
           = <<" ", " ", " ">> \o block.issueKey \o ShownDescription(block.description)

C20_HoursFormFromOneHour ==
  timeline # PendingText =>
    \A k \in DOMAIN GivenBlocks :
      RendersBlock(timeline, MarkerAt(MarkerPositions(timeline), k),
                   GivenBlocks[StableAt(k)],
                   GivenBlocks[StableAt(k)].durationSeconds >= 3600)

C20_HoursFormFromSixtyRoundedMinutes ==
  timeline # PendingText =>
    \A k \in DOMAIN GivenBlocks :
      RendersBlock(timeline, MarkerAt(MarkerPositions(timeline), k),
                   GivenBlocks[StableAt(k)],
                   NearestMinutes(GivenBlocks[StableAt(k)].durationSeconds) >= 60)

\* A planned block and three existing ones: one with a description of 40
\* characters, one with a description of 41, one without a description that
\* lasts half a minute less than an hour
C20_Witness ==
  /\ timeline # PendingText
  /\ plannedBlock # NoPlannedBlock
  /\ \E k \in DOMAIN blocks : Len(blocks[k].description) = 40
  /\ \E k \in DOMAIN blocks : Len(blocks[k].description) = 41
  /\ \E k \in DOMAIN blocks :
       blocks[k].description = Undefined /\ blocks[k].durationSeconds = 3570

(***************************************************************************)
(* C21: the issue-key format is the same in the parser and in the shared   *)
(* validation: for every key without surrounding whitespace,               *)
(* validateIssueKey accepts it exactly when the key check of               *)
(* validateParsedEntry accepts it, and exactly when the key followed by    *)
(* " 1h" parses to an entry whose issueKey is the key in upper case.       *)
(***************************************************************************)
NoSurroundingWhitespace(s) ==
  s = <<>> \/ (s[1] \notin Spaces /\ s[Len(s)] \notin Spaces)

\* The form has parsed the key followed by " 1h" to an entry of the key in
\* upper case
ParsesToUpperCaseKey ==
  /\ input = key \o <<" ", "1", "h">>
  /\ parsed # Null
  /\ parsed.issueKey = toUpperCase(key)

C21_SameIssueKeyFormat ==
  (keyError # Pending /\ NoSurroundingWhitespace(key)) =>
    /\ keyValid <=> (keyError # ErrIssueKey)
    /\ keyValid <=> ParsesToUpperCaseKey

\* A key in lower case that all three accept
C21_Witness ==
  /\ keyError # Pending
  /\ key = <<"a", "Z", "9", "-", "1">>
  /\ keyValid
  /\ keyError = NoError
  /\ parsed # Null
  /\ parsed.issueKey = <<"A", "Z", "9", "-", "1">>

(***************************************************************************)
(* C22: after any sequence of addJqlQuery, removeJqlQuery, setDefaultJql   *)
(* (with any index) and saveJqlQueries calls run one at a time,            *)
(* loadJqlQueries returns a non-empty list with exactly one default query; *)
(* removing the last remaining query restores the built-in query, and      *)
(* setDefaultJql(i) with i in range makes query i the single default.      *)
(***************************************************************************)
DefaultsOf(queries) == { i \in DOMAIN queries : queries[i].isDefault }

\* The last call removed the only query there was
RemovedLastQuery ==
  /\ jqlCall.name = "removeJqlQuery"
  /\ Len(jqlCall.queries) = 1
  /\ jqlCall.index \in {0, 0 - 1}

\* The last call set the default at an index of the list
SetDefaultInRange ==
  /\ jqlCall.name = "setDefaultJql"
  /\ jqlCall.index \in 0..(Len(jqlCall.queries) - 1)

\* The same queries, whatever their isDefault
SameQueries(loaded, queries) ==
  /\ Len(loaded) = Len(queries)
  /\ \A i \in DOMAIN queries :
       loaded[i].title = queries[i].title /\ loaded[i].value = queries[i].value

C22_ExactlyOneDefaultQuery ==
  jqlLoaded # PendingList =>
    /\ Len(jqlLoaded) > 0
    /\ Cardinality(DefaultsOf(jqlLoaded)) = 1
    /\ RemovedLastQuery =>
         /\ Len(jqlLoaded) = 1
         /\ jqlLoaded[1].title = "Assigned to me (Unresolved)"
         /\ jqlLoaded[1].isDefault
    /\ SetDefaultInRange =>
         /\ SameQueries(jqlLoaded, jqlCall.queries)
         /\ DefaultsOf(jqlLoaded) = {jqlCall.index + 1}

\* Three queries are stored and the third has been made the default
C22_Witness ==
  /\ jqlLoaded # PendingList
  /\ Len(jqlLoaded) = 3
  /\ jqlCall.name = "setDefaultJql"
  /\ jqlCall.index = 2
  /\ DefaultsOf(jqlCall.queries) = {1}
  /\ DefaultsOf(jqlLoaded) = {3}

(***************************************************************************)
(* C23: formatting then parsing is a round trip on entries without         *)
(* description: for an entry with a valid upper-case issue key, a duration *)
(* that is a positive multiple of 60 seconds, no description and a start   *)
(* time absent or HH:MM:00, parseTimeEntry(formatParsedEntry(e)) = e.      *)
(***************************************************************************)
\* "HH:MM:00" with HH in 00..23 and MM in 00..59
IsTimeOfDay(t) ==
  /\ Len(t) = 8
  /\ \A i \in {1, 2, 4, 5} : t[i] \in Digits
  /\ t[3] = ":" /\ t[6] = ":" /\ t[7] = "0" /\ t[8] = "0"
  /\ parseInt(SubSeq(t, 1, 2)) \in 0..23
  /\ parseInt(SubSeq(t, 4, 5)) \in 0..59

RoundTripEntry(e) ==
  /\ IssueKeyTest(e.issueKey)
  /\ e.issueKey = toUpperCase(e.issueKey)
  /\ e.durationSeconds > 0
  /\ e.durationSeconds % 60 = 0
  /\ e.description = Undefined
  /\ e.startTime = Undefined \/ IsTimeOfDay(e.startTime)

C23_FormatParseRoundTrip ==
  (input # <<>> /\ RoundTripEntry(givenEntry)) =>
    /\ parsed # Null
    /\ parsed.issueKey = givenEntry.issueKey
    /\ parsed.durationSeconds = givenEntry.durationSeconds
    /\ parsed.startTime = givenEntry.startTime
    /\ parsed.description = Undefined

\* An entry of more than a day that starts at five past midnight
C23_Witness ==
  /\ RoundTripEntry(givenEntry)
  /\ givenEntry.durationSeconds = 90060
  /\ givenEntry.startTime = <<"0", "0", ":", "0", "5", ":", "0", "0">>
  /\ input = <<"A", "B", "-", "1", ":", " ", "2", "5", "h", " ", "1", "m",
               " ", "@", " ", "1", "2", ":", "0", "5", " ", "A", "M">>
  /\ parsed # Null
  /\ parsed.startTime = givenEntry.startTime

(***************************************************************************)
(* C24: conflict detection is symmetric and independent of the order of    *)
(* the blocks: for every permutation of the list detectConflicts reports   *)
(* the same unordered pairs of blocks with the same overlapMinutes (equal  *)
(* blocks counted as often as they occur), and never more than n(n-1)/2    *)
(* conflicts for n blocks.                                                 *)
(***************************************************************************)
Reorderings(n) ==
  { f \in [1..n -> 1..n] : \A i, j \in 1..n : f[i] = f[j] => i = j }

Permuted(list, f) == [i \in DOMAIN list |-> list[f[i]]]

\* What a conflict says, whichever block is block1
UnorderedConflict(c) == <<{c.block1, c.block2}, c.overlapMinutes>>

TimesReported(list, c) ==
  Cardinality({ k \in DOMAIN list : UnorderedConflict(list[k]) = UnorderedConflict(c) })

SameUnorderedConflicts(list1, list2) ==
  /\ Len(list1) = Len(list2)
  /\ \A k \in DOMAIN list1 :
       TimesReported(list1, list1[k]) = TimesReported(list2, list1[k])

C24_ConflictsOrderIndependent ==
  conflicts # PendingList =>
    /\ \A f \in Reorderings(Len(GivenBlocks)) :
         SameUnorderedConflicts(conflicts, detectConflicts(Permuted(GivenBlocks, f)))
    /\ 2 * Len(conflicts) <= Len(GivenBlocks) * (Len(GivenBlocks) - 1)

\* Four different blocks that conflict with each other in three pairs, of
\* different overlaps
C24_Witness ==
  /\ conflicts # PendingList
  /\ Len(GivenBlocks) = 4
  /\ Cardinality({ GivenBlocks[k] : k \in DOMAIN GivenBlocks }) = 4
  /\ Len(conflicts) >= 3
  /\ Cardinality({ conflicts[k].overlapMinutes : k \in DOMAIN conflicts }) >= 2
  /\ Len(detectConflicts(Permuted(GivenBlocks, [i \in 1..4 |-> 5 - i]))) = Len(conflicts)
  /\ detectConflicts(Permuted(GivenBlocks, [i \in 1..4 |-> 5 - i])) # conflicts

(***************************************************************************)
(* C25: two worklogs that both lack a start time are placed at the default *)
(* 09:00:00 by worklogsToTimeBlocks, so when each lasts at least 60        *)
(* seconds detectConflicts reports them as conflicting, with an overlap of *)
(* the whole minutes of the shorter of the two durations.                  *)
(***************************************************************************)
\* The pairs of positions of worklogs without start time that last at least
\* a minute
UnstartedPairs ==
  { p \in (DOMAIN worklogs) \X (DOMAIN worklogs) :
      /\ p[1] < p[2]
      /\ \A i \in {p[1], p[2]} :
           /\ worklogs[i].startTime = Undefined
           /\ worklogs[i].timeSpentSeconds >= 60 }

\* The whole minutes of the shorter of the two durations, in seconds
ShorterWholeMinutes(p) ==
  LET d1 == worklogs[p[1]].timeSpentSeconds
      d2 == worklogs[p[2]].timeSpentSeconds
  IN  ((IF d1 < d2 THEN d1 ELSE d2) \div 60) * 60

C25_UnstartedWorklogsConflict ==
  conflicts # PendingList =>
    \A p \in UnstartedPairs :
      /\ blocks[p[1]].startTime = <<"0", "9", ":", "0", "0", ":", "0", "0">>
      /\ blocks[p[2]].startTime = <<"0", "9", ":", "0", "0", ":", "0", "0">>
      /\ \E k \in DOMAIN conflicts :
           /\ conflicts[k].block1 = blocks[p[1]]
           /\ conflicts[k].block2 = blocks[p[2]]
           /\ conflicts[k].overlapMinutes = ShorterWholeMinutes(p)

\* Worklogs without start time of 59.5 minutes and of 1.5 minutes, which
\* conflict by one minute
C25_Witness ==
  /\ conflicts # PendingList
  /\ \E p \in UnstartedPairs :
       /\ worklogs[p[1]].timeSpentSeconds = 3570
       /\ worklogs[p[2]].timeSpentSeconds = 90
       /\ \E k \in DOMAIN conflicts :
            /\ conflicts[k].block1 = blocks[p[1]]
            /\ conflicts[k].block2 = blocks[p[2]]
            /\ conflicts[k].overlapMinutes = 60

(***************************************************************************)
(* C26: a block whose endTime is not later than its startTime (of no       *)
(* duration, or shorter than a minute with its end cut to the minute) is   *)
(* never part of a conflict that detectConflicts returns, even when its    *)
(* start lies strictly inside another block.                               *)
(***************************************************************************)
EndsNoLater(block) == ClockSeconds(block.endTime) <= ClockSeconds(block.startTime)

\* The start of the block lies strictly inside the other block
StartsInside(block, other) ==
  /\ ClockSeconds(other.startTime) < ClockSeconds(block.startTime)
  /\ ClockSeconds(block.startTime) < ClockSeconds(other.endTime)

C26_NoConflictWithoutExtent ==
  conflicts # PendingList =>
    \A i \in DOMAIN GivenBlocks :
      EndsNoLater(GivenBlocks[i]) =>
        \A k \in DOMAIN conflicts :
          /\ conflicts[k].block1 # GivenBlocks[i]
          /\ conflicts[k].block2 # GivenBlocks[i]

\* A block of no duration and a block cut to the minute before its start,
\* both inside a third block, and no conflict at all
C26_Witness ==
  /\ conflicts = <<>>
  /\ \E i, j, k \in DOMAIN GivenBlocks :
       /\ GivenBlocks[i].durationSeconds = 0
       /\ GivenBlocks[j].durationSeconds = 29
       /\ ClockSeconds(GivenBlocks[j].endTime) < ClockSeconds(GivenBlocks[j].startTime)
       /\ StartsInside(GivenBlocks[i], GivenBlocks[k])
       /\ StartsInside(GivenBlocks[j], GivenBlocks[k])

(***************************************************************************)
(* C27: in useTimeline a load that has been superseded by a change of the  *)
(* props, or that finishes after unmount, never writes timeline or         *)
(* conflictSummary: in whatever order the loads complete, once the latest  *)
(* load has completed the timeline and the conflict summary shown are      *)
(* those computed for the latest props (empty if it failed) and loading is *)
(* false.                                                                  *)
(***************************************************************************)
LatestLoad == hookLoads[Len(hookLoads)]

\* What the latest load shows when it completes
LatestShown ==
  /\ LatestLoad.state = "done" =>
       /\ timeline = timelineOf(LatestLoad.props, getMyWorklogs(LatestLoad.props.date))
       /\ conflictSummary
            = conflictSummaryOf(LatestLoad.props, getMyWorklogs(LatestLoad.props.date))
       /\ ~loading
  /\ LatestLoad.state = "failed" =>
       /\ timeline = <<>>
       /\ conflictSummary = <<>>
       /\ ~loading

\* A load completes that is not the latest, or after unmount
StaleLoadCompletes ==
  \E i \in DOMAIN hookLoads :
    /\ hookLoads[i].state = "waiting"
    /\ i \in DOMAIN hookLoads'
    /\ hookLoads'[i].state # "waiting"
    /\ i < Len(hookLoads) \/ ~hookMounted

C27_OnlyLatestLoadWrites ==
  /\ []((hookMounted /\ hookLoads # <<>>) => LatestShown)
  /\ [][StaleLoadCompletes => UNCHANGED <<timeline, conflictSummary, loading>>]_vars

\* Three loads have completed, the first one with worklogs of another date,
\* and what is shown is of the third
C27_Witness ==
  /\ hookMounted
  /\ Len(hookLoads) = 3
  /\ hookLoads[1].state = "done"
  /\ hookLoads[2].state = "failed"
  /\ hookLoads[3].state = "done"
  /\ hookLoads[1].props.date # hookLoads[3].props.date
  /\ timeline = timelineOf(hookLoads[3].props, getMyWorklogs(hookLoads[3].props.date))
  /\ timeline # timelineOf(hookLoads[1].props, getMyWorklogs(hookLoads[1].props.date))
  /\ ~loading

(***************************************************************************)
(* C28: a timer is not lost when logging fails: when createWorklog fails   *)
(* during Stop & Log Time the timer entry is still stored, so that the     *)
(* user can try again as the failure screen says, and the stored timer is  *)
(* removed only when its time has been logged.                             *)
(***************************************************************************)
\* The stored timer goes away in this step
TimerRemoved == activeTimer # NoTimer /\ activeTimer' = NoTimer

C28_TimerKeptUntilLogged ==
  /\ [](markdown = "Failed to Log Work" => activeTimer # NoTimer)
  /\ [][TimerRemoved => \E k \in DOMAIN loggedTimers' : loggedTimers'[k] = activeTimer]_vars

(***************************************************************************)
(* C29: the two duration renderings of quick-log agree on whole minutes:   *)
(* for a duration that is a non-negative multiple of 60 seconds the        *)
(* duration part of formatParsedEntry (which floors to minutes) is the     *)
(* text of formatDuration (which rounds to minutes); the preview and the   *)
(* success message differ only for durations with seconds.                 *)
(***************************************************************************)
\* The end of the duration of a preview text that starts at position p: the
\* space before the "@" of the time or the "-" of the description, or the
\* end of the text
RECURSIVE DurationEnd(_, _)
DurationEnd(text, p) ==
  IF p > Len(text) THEN p
  ELSE IF text[p] = " " /\ At(text, p + 1) \in {"@", "-"} THEN p
  ELSE DurationEnd(text, p + 1)

\* The duration part of the preview of an entry: what follows "KEY: "
DurationPart(text, issueKey) ==
  SubSeq(text, Len(issueKey) + 3, DurationEnd(text, Len(issueKey) + 3) - 1)

BothRendered == input # <<>> /\ successDuration # PendingText

C29_RenderingsAgreeOnWholeMinutes ==
  (BothRendered /\ givenEntry.durationSeconds % 60 = 0) =>
    DurationPart(input, givenEntry.issueKey) = successDuration

\* A day, an hour and a minute, with a start time and a description after
\* it in the preview
C29_Witness ==
  /\ BothRendered
  /\ givenEntry.durationSeconds = 90060
  /\ givenEntry.startTime # Undefined
  /\ givenEntry.description # Undefined
  /\ successDuration = <<"2", "5", "h", " ", "1", "m">>
  /\ DurationPart(input, givenEntry.issueKey) = <<"2", "5", "h", " ", "1", "m">>

(***************************************************************************)
(* C30: the timeline functions leave their inputs unchanged: after         *)
(* worklogsToTimeBlocks(worklogs), detectConflicts(blocks) and             *)
(* generateSimpleTimeline(blocks, planned), with or without a planned      *)
(* block, the list given has the same elements in the same order and no    *)
(* field of a block or worklog has changed; sorting for display never      *)
(* reorders the caller's list, and the blocks of a conflict are the blocks *)
(* of the list as they were given.                                         *)
(***************************************************************************)
\* The blocks of every conflict are blocks of the list, as they are there
ConflictsReferToBlocks ==
  \A k \in DOMAIN conflicts :
    \A b \in {conflicts[k].block1, conflicts[k].block2} :
      \E i \in DOMAIN GivenBlocks : GivenBlocks[i] = b

====
